---- MODULE Spec2Model ----
(***************************************************************************)
(* A model of the binary patch engine of the Discord stereo patcher        *)
(* (macOS): the adaptive patcher discord_stereo_adaptive_patch.py and the  *)
(* fixed-offset engine PatcherEngine of discord_stereo_patcher_gui.py.     *)
(*                                                                         *)
(* The target file is a byte buffer.  It is kept sparse (its length and    *)
(* its non-zero bytes), so that the offsets of the source (0xA296FF,       *)
(* 0x403A90, ...) are used as they are written there.                      *)
(***************************************************************************)
EXTENDS Integers, Sequences, FiniteSets, TLC

\* ------------------------------------------------------------------------
\* Python values
\* ------------------------------------------------------------------------

\* None, an int and a str are kept apart by a tag (isinstance(off, str)).
None == [t |-> "none", v |-> 0, s |-> <<>>]

PyInt(n) == [t |-> "int", v |-> n, s |-> <<>>]

PyStr(chars) == [t |-> "str", v |-> 0, s |-> chars]

IsNone(x) == x.t = "none"

IsStr(x) == x.t = "str"

\* The element of a one-element set.
Only(S) == CHOOSE x \in S : TRUE

\* s[1:]
Rest(s) == SubSeq(s, 2, Len(s))

Min(a, b) == IF a < b THEN a ELSE b

Max(a, b) == IF a > b THEN a ELSE b

\* A dict is the sequence of its (key, value) pairs in insertion order.
DictHas(d, k) == \E i \in DOMAIN d : d[i].k = k

DictGet(d, k) == d[CHOOSE i \in DOMAIN d : d[i].k = k].v

DictSet(d, k, val) ==
    IF DictHas(d, k)
    THEN [i \in DOMAIN d |-> IF d[i].k = k THEN [k |-> k, v |-> val] ELSE d[i]]
    ELSE Append(d, [k |-> k, v |-> val])

\* ------------------------------------------------------------------------
\* Hex strings: a str is the sequence of its characters
\* ------------------------------------------------------------------------

LowerDigits == <<"0", "1", "2", "3", "4", "5", "6", "7",
                 "8", "9", "a", "b", "c", "d", "e", "f">>

UpperDigits == <<"0", "1", "2", "3", "4", "5", "6", "7",
                 "8", "9", "A", "B", "C", "D", "E", "F">>

IsHexDigit(c) == \E i \in 1..16 : LowerDigits[i] = c \/ UpperDigits[i] = c

\* int(c, 16) of one digit, as a table
HexValue ==
    [c \in {LowerDigits[i] : i \in 1..16} \cup {UpperDigits[i] : i \in 1..16} |->
        (CHOOSE i \in 1..16 : LowerDigits[i] = c \/ UpperDigits[i] = c) - 1]

HexVal(c) == HexValue[c]

\* str.lower(), one character
LowerChar(c) == IF c \in DOMAIN HexValue THEN LowerDigits[HexValue[c] + 1] ELSE c

\* s.lower()
Lower(s) == [i \in DOMAIN s |-> LowerChar(s[i])]

\* s.replace(" ", "")
RemoveSpaces(s) == SelectSeq(s, LAMBDA c : c # " ")

\* A variant of the normalisation that forgets .lower().
NormHexKeepsCase(s) == RemoveSpaces(s)

\* s.replace(" ", "").lower(), the normal form of get_patch_specs
NormHex(s) == Lower(RemoveSpaces(s))

\* bytes.fromhex(s) for a string of whole bytes (spaces are skipped, the case
\* of a digit does not matter)
FromHex(s) ==
    LET h == RemoveSpaces(s)
    IN  [i \in 1..(Len(h) \div 2) |-> 16 * HexVal(h[2 * i - 1]) + HexVal(h[2 * i])]

\* bytes.hex(): two lower-case digits per byte
ToHex(b) ==
    [k \in 1..(2 * Len(b)) |->
        IF k % 2 = 1 THEN LowerDigits[(b[(k + 1) \div 2] \div 16) + 1]
                     ELSE LowerDigits[(b[k \div 2] % 16) + 1]]

RECURSIVE HexDigitsValue(_, _)
HexDigitsValue(s, acc) ==
    IF s = <<>> THEN acc ELSE HexDigitsValue(Rest(s), 16 * acc + HexVal(Head(s)))

\* int(s, 16); an "0x" prefix is accepted
ParseHexInt(s) ==
    IF Len(s) >= 2 /\ s[1] = "0" /\ s[2] \in {"x", "X"}
    THEN HexDigitsValue(SubSeq(s, 3, Len(s)), 0)
    ELSE HexDigitsValue(s, 0)

\* if isinstance(off, str): off = int(off, 16)
OffsetValue(off) == IF IsStr(off) THEN ParseHexInt(off.s) ELSE off.v

\* ------------------------------------------------------------------------
\* The byte buffer of the target file
\* ------------------------------------------------------------------------

\* A file or bytearray of n bytes: its length and its non-zero bytes by
\* offset (@@ has the table computed once, here, rather than at each read).
Buffer(n, bytes) == [len |-> n, mem |-> bytes @@ <<>>]

\* data[i] for 0 <= i < len(data)
Rd(data, i) == IF i \in DOMAIN data.mem THEN data.mem[i] ELSE 0

\* A slice bound as Python clamps it: a negative index counts from the end.
PyIdx(i, n) == IF i < 0 THEN Max(i + n, 0) ELSE Min(i, n)

\* data[a:b]
PySlice(data, a, b) ==
    LET lo == PyIdx(a, data.len)
        hi == PyIdx(b, data.len)
    IN  [k \in 1..(hi - lo) |-> Rd(data, lo + k - 1)]

\* data[a:b] = p on a bytearray: the slice is replaced by p, the tail moves
PySetSlice(data, a, b, p) ==
    LET lo   == PyIdx(a, data.len)
        hi   == Max(PyIdx(b, data.len), lo)
        n    == Len(p)
        gone == hi - lo
        dom  == {i \in DOMAIN data.mem : i < lo}
                \cup {i \in lo..(lo + n - 1) : p[i - lo + 1] # 0}
                \cup {k + n - gone : k \in {j \in DOMAIN data.mem : j >= hi}}
    IN  Buffer(data.len - gone + n,
               [i \in dom |-> IF i < lo THEN data.mem[i]
                              ELSE IF i < lo + n THEN p[i - lo + 1]
                              ELSE data.mem[i - n + gone]])

\* f.seek(offset); f.write(p) on a file opened "r+b": a write past the end
\* extends the file, the gap reads as zeros
FileWriteAt(data, offset, p) ==
    LET n     == Len(p)
        range == offset..(offset + n - 1)
        dom   == (DOMAIN data.mem \ range) \cup {i \in range : p[i - offset + 1] # 0}
    IN  Buffer(Max(data.len, offset + n),
               [i \in dom |-> IF i \in range THEN p[i - offset + 1] ELSE data.mem[i]])

\* f.seek(offset); f.read(n): what the file holds there, short at the end
FileReadAt(data, offset, n) ==
    [k \in 1..(Min(offset + n, data.len) - offset) |-> Rd(data, offset + k - 1)]

\* A buffer of n bytes, zero but for the given pieces (offset, bytes).
RECURSIVE MakeFile(_, _)
MakeFile(n, pieces) ==
    IF pieces = <<>> THEN [len |-> n, mem |-> <<>>]
    ELSE FileWriteAt(MakeFile(n, Rest(pieces)), Head(pieces)[1], Head(pieces)[2])

\* ------------------------------------------------------------------------
\* The fat (universal) header
\* ------------------------------------------------------------------------

\* struct.unpack_from(">I", data, off) and ("<I", ...): a 32-bit value is kept
\* as its four base-256 digits, the most significant first, because the magic
\* numbers do not fit the integers of the model checker.
UnpackBE(data, off) ==
    <<Rd(data, off), Rd(data, off + 1), Rd(data, off + 2), Rd(data, off + 3)>>

UnpackLE(data, off) ==
    <<Rd(data, off + 3), Rd(data, off + 2), Rd(data, off + 1), Rd(data, off)>>

\* The value of a 32-bit word below 2^31.
U32(d) == ((d[1] * 256 + d[2]) * 256 + d[3]) * 256 + d[4]

\* struct.pack(">I", n)
PackBE(n) == <<(n \div 16777216) % 256, (n \div 65536) % 256, (n \div 256) % 256, n % 256>>

\* (0xBEBAFECA, 0xBFBAFECA)
FAT_MAGICS == {<<190, 186, 254, 202>>, <<191, 186, 254, 202>>}

\* CPU_ARM64 = 0x0100000C
CPU_ARM64 == <<1, 0, 0, 12>>

\* 0x01000007  # x86_64
CPU_X86_64 == <<1, 0, 0, 7>>

\* A variant of the count that lets one entry more through.
ClampCountOneMore(d) == IF d[1] # 0 \/ d[2] # 0 \/ d[3] # 0 THEN 21 ELSE Min(d[4], 21)

\* min(nfat, 20) of a 32-bit count
ClampCount(d) == IF d[1] # 0 \/ d[2] # 0 \/ d[3] # 0 THEN 20 ELSE Min(d[4], 20)

RECURSIVE Arm64Scan(_, _, _)
Arm64Scan(data, i, n) ==
    LET off == 8 + i * 20
    IN  IF i >= n THEN None
        ELSE IF off + 20 > data.len THEN None
        ELSE IF UnpackBE(data, off) = CPU_ARM64
             THEN PyInt(U32(UnpackBE(data, off + 8)))
        ELSE Arm64Scan(data, i + 1, n)

\* _get_arm64_slice_offset(data): the ARM64 slice's file offset, or None
GetArm64SliceOffset(data) ==
    IF data.len < 32 THEN None
    ELSE IF UnpackLE(data, 0) \notin FAT_MAGICS THEN None
    ELSE Arm64Scan(data, 0, ClampCount(UnpackBE(data, 4)))

RECURSIVE FatScan(_, _, _)
FatScan(d, i, n) ==
    LET off == 8 + i * 20
    IN  IF i >= n THEN 0
        ELSE IF off + 20 > d.len THEN 0
        ELSE IF UnpackBE(d, off) = CPU_X86_64 THEN U32(UnpackBE(d, off + 8))
        ELSE FatScan(d, i + 1, n)

\* PatcherEngine.get_fat_offset(node_path): the x86_64 slice's file offset as
\* the fixed-offset engine reads it from the first 512 bytes, 0 if none
GetFatOffset(data) ==
    LET d == [len |-> Min(data.len, 512),
              mem |-> [i \in {j \in DOMAIN data.mem : j < 512} |-> data.mem[i]]]
    IN  IF d.len < 32 THEN 0
        ELSE IF UnpackBE(d, 0) \notin FAT_MAGICS THEN 0
        ELSE FatScan(d, 0, ClampCount(UnpackBE(d, 4)))

\* ------------------------------------------------------------------------
\* The patch tables
\* ------------------------------------------------------------------------

PATCH_BYTES_BY_NAME == <<
    [k |-> "EmulateStereoSuccess1",
     v |-> <<"0", "2">>],
    [k |-> "EmulateStereoSuccess2",
     v |-> <<"E", "B">>],
    [k |-> "CreateAudioFrameStereo",
     v |-> <<"4", "9", "8", "9", "C", "4", "9", "0">>],
    [k |-> "AudioEncoderOpusConfigSetChannels",
     v |-> <<"0", "2">>],
    [k |-> "MonoDownmixer",
     v |-> <<"9", "0", "9", "0", "9", "0", "9", "0", "9", "0", "9", "0", "9",
             "0", "9", "0", "9", "0", "9", "0", "9", "0", "9", "0", "E", "9">>],
    [k |-> "EmulateBitrateModified",
     v |-> <<"0", "0", "D", "C", "0", "5">>],
    [k |-> "SetsBitrateBitrateValue",
     v |-> <<"0", "0", "D", "C", "0", "5", "0", "0", "0", "0">>],
    [k |-> "SetsBitrateBitwiseOr",
     v |-> <<"9", "0", "9", "0", "9", "0">>],
    [k |-> "DuplicateEmulateBitrateModified",
     v |-> <<"0", "0", "D", "C", "0", "5">>],
    [k |-> "HighPassFilter",
     v |-> <<"C", "3">>],
    [k |-> "DownmixFunc",
     v |-> <<"C", "3">>],
    [k |-> "AudioEncoderOpusConfigIsOk",
     v |-> <<"C", "3">>],
    [k |-> "ThrowError",
     v |-> <<"C", "3">>],
    [k |-> "EncoderConfigInit1",
     v |-> <<"0", "0", "D", "C", "0", "5", "0", "0">>],
    [k |-> "EncoderConfigInit2",
     v |-> <<"0", "0", "D", "C", "0", "5", "0", "0">>] >>

\* BYTE_PATCHES of the fixed-offset engine: (offset, hex_bytes)
BYTE_PATCHES == <<
    [offset |-> 10655487, hex_bytes |-> <<"0", "2">>],
    [offset |-> 10655488, hex_bytes |-> <<"E", "B">>],
    [offset |-> 10609482, hex_bytes |-> <<"4", "9", "8", "9", "C", "4", "9", "0">>],
    [offset |-> 4308549, hex_bytes |-> <<"0", "2">>],
    [offset |-> 10395115,
     hex_bytes |-> <<"9", "0", "9", "0", "9", "0", "9", "0", "9", "0", "9", "0", "9",
                     "0", "9", "0", "9", "0", "9", "0", "9", "0", "9", "0", "E", "9">>],
    [offset |-> 10656606, hex_bytes |-> <<"0", "0", "D", "C", "0", "5">>],
    [offset |-> 6328800, hex_bytes |-> <<"0", "0", "D", "C", "0", "5", "0", "0", "0", "0">>],
    [offset |-> 6328808, hex_bytes |-> <<"9", "0", "9", "0", "9", "0">>],
    [offset |-> 10676804, hex_bytes |-> <<"0", "0", "D", "C", "0", "5">>],
    [offset |-> 2846400, hex_bytes |-> <<"C", "3">>],
    [offset |-> 4173424, hex_bytes |-> <<"C", "3">>],
    [offset |-> 4309328, hex_bytes |-> <<"C", "3">>],
    [offset |-> 9720384, hex_bytes |-> <<"C", "3">>],
    [offset |-> 4308559, hex_bytes |-> <<"0", "0", "D", "C", "0", "5", "0", "0">>],
    [offset |-> 4307400, hex_bytes |-> <<"0", "0", "D", "C", "0", "5", "0", "0">>],
    [offset |-> 10644310, hex_bytes |-> <<"4", "8", "8", "9", "C", "2", "9", "0">>],
    [offset |-> 10655661, hex_bytes |-> <<"4", "8", "8", "9", "C", "2", "9", "0">>] >>

\* `name in PATCH_BYTES_BY_NAME`
IsKnownName(name) == DictHas(PATCH_BYTES_BY_NAME, name)

\* Truth of a Python value in `if x:` position (None and "" are false; so are
\* an empty list and an empty dict, which are empty sequences here)
Truthy(x) == ~IsNone(x) /\ (IsStr(x) => x.s # <<>>) /\ (x.t = "int" => x.v # 0)

\* (x or "") for a str or None
OrEmpty(x) == IF IsStr(x) THEN x.s ELSE <<>>

\* ------------------------------------------------------------------------
\* Persisted metadata (patch_metadata.json)
\* ------------------------------------------------------------------------

\* No metadata file.
\* `form` is what json.load makes of the file: "object" for a JSON object,
\* "invalid" for text that is not JSON, "not_object" for valid JSON of another
\* type (a list, a number, a string)
NoMeta == [exists |-> FALSE, form |-> "object", node_path |-> "", x86_64 |-> <<>>,
           arm64 |-> <<>>]

RECURSIVE SavedX86(_)
SavedX86(x86_offsets) ==
    IF x86_offsets = <<>> THEN <<>>
    ELSE LET e == Head(x86_offsets)
         IN  IF IsKnownName(e.k)
             THEN <<[k |-> e.k,
                     v |-> [file_offset |-> PyInt(e.v),
                            patch_hex   |-> DictGet(PATCH_BYTES_BY_NAME, e.k)]]>>
                  \o SavedX86(Rest(x86_offsets))
             ELSE SavedX86(Rest(x86_offsets))

\* _save_patch_metadata(node_path_str, x86_offsets, arm64_meta): the file
\* written (one record, whatever was there before)
SavePatchMetadata(node_path_str, x86_offsets, arm64_meta) ==
    [exists |-> TRUE, form |-> "object", node_path |-> node_path_str,
     x86_64 |-> SavedX86(x86_offsets), arm64 |-> arm64_meta]

\* _load_patch_metadata, lines 84-88: json.load raises JSONDecodeError on
\* text that is not JSON, which line 89 catches; on JSON that is not an object
\* meta.get raises AttributeError, which line 89 does not catch
LoadPatchMetadataRaises(m, node_path_str) == m.exists /\ m.form = "not_object"

\* A variant of _load_patch_metadata that returns the record whatever path
\* it was saved for.
LoadPatchMetadataAnyPath(m, node_path_str) ==
    IF ~m.exists THEN [found |-> FALSE, x86 |-> <<>>, arm64 |-> <<>>]
    ELSE IF m.form # "object" THEN [found |-> FALSE, x86 |-> <<>>, arm64 |-> <<>>]
    ELSE [found |-> TRUE, x86 |-> m.x86_64, arm64 |-> m.arm64]

\* _load_patch_metadata(node_path_str): (x86_dict, arm64_list), or
\* (None, None), which `found` tells apart from an empty record; the value
\* is meaningful only where LoadPatchMetadataRaises is false
LoadPatchMetadata(m, node_path_str) ==
    IF ~m.exists THEN [found |-> FALSE, x86 |-> <<>>, arm64 |-> <<>>]
    ELSE IF m.form # "object" THEN [found |-> FALSE, x86 |-> <<>>, arm64 |-> <<>>]
    ELSE IF m.node_path # node_path_str THEN [found |-> FALSE, x86 |-> <<>>, arm64 |-> <<>>]
    ELSE [found |-> TRUE, x86 |-> m.x86_64, arm64 |-> m.arm64]

\* ------------------------------------------------------------------------
\* get_patch_specs: the sites (name, file_offset, expected_hex, patch_hex)
\* ------------------------------------------------------------------------

X86Name(name) == [pfx |-> "", name |-> name]

\* f"ARM64:{name}"
Arm64Name(name) == [pfx |-> "ARM64:", name |-> name]

SiteSpec(name, off, expected, patch_hex) ==
    [name |-> name, file_offset |-> off, expected |-> expected, patch |-> patch_hex]

\* lines 171-175: the x86_64 sites of the saved metadata
RECURSIVE SpecsFromSavedX86(_)
SpecsFromSavedX86(saved_x86) ==
    IF saved_x86 = <<>> THEN <<>>
    ELSE LET name      == Head(saved_x86).k
             info      == Head(saved_x86).v
             off       == info.file_offset
             patch_hex == NormHex(info.patch_hex)
         IN  (IF ~IsNone(off) /\ patch_hex # <<>>
              THEN <<SiteSpec(X86Name(name), off.v, None, patch_hex)>>
              ELSE <<>>)
             \o SpecsFromSavedX86(Rest(saved_x86))

\* lines 179-194: the sites of the document's `patches`
RECURSIVE SpecsFromPatches(_, _)
SpecsFromPatches(patches, file_offsets) ==
    IF patches = <<>> THEN <<>>
    ELSE LET p    == Head(patches)
             off1 == IF IsNone(p.file_offset) /\ DictHas(file_offsets, p.name)
                     THEN DictGet(file_offsets, p.name)
                     ELSE p.file_offset
             expected == IF Truthy(p.expected_original)
                         THEN PyStr(NormHex(p.expected_original.s))
                         ELSE p.expected_original
         IN  (IF IsKnownName(p.name) /\ ~IsNone(off1)
              THEN <<SiteSpec(X86Name(p.name), OffsetValue(off1), expected,
                              NormHex(DictGet(PATCH_BYTES_BY_NAME, p.name)))>>
              ELSE <<>>)
             \o SpecsFromPatches(Rest(patches), file_offsets)

\* lines 195-202: the sites of the flat `file_offsets` table
RECURSIVE SpecsFromFileOffsets(_, _)
SpecsFromFileOffsets(table, file_offsets) ==
    IF table = <<>> THEN <<>>
    ELSE LET name == Head(table).k
         IN  (IF DictHas(file_offsets, name)
              THEN <<SiteSpec(X86Name(name), OffsetValue(DictGet(file_offsets, name)),
                              None, NormHex(Head(table).v))>>
              ELSE <<>>)
             \o SpecsFromFileOffsets(Rest(table), file_offsets)

\* lines 170-202
X86Specs(saved_x86, export_data) ==
    IF saved_x86 # <<>> THEN SpecsFromSavedX86(saved_x86)
    ELSE LET fromPatches == SpecsFromPatches(export_data.patches, export_data.file_offsets)
         IN  IF fromPatches = <<>> /\ export_data.file_offsets # <<>>
             THEN SpecsFromFileOffsets(PATCH_BYTES_BY_NAME, export_data.file_offsets)
             ELSE fromPatches

\* lines 208-217: the ARM64 sites of the saved metadata, at the slice base of
\* the file as it is now
RECURSIVE SpecsFromSavedArm64(_, _)
SpecsFromSavedArm64(saved_arm64, arm64_start) ==
    IF saved_arm64 = <<>> THEN <<>>
    ELSE LET entry     == Head(saved_arm64)
             orig_hex  == NormHex(OrEmpty(entry.orig))
             patch_hex == NormHex(OrEmpty(entry.patch))
         IN  (IF ~IsNone(entry.va) /\ orig_hex # <<>> /\ patch_hex # <<>>
                 /\ Len(orig_hex) = Len(patch_hex)
              THEN <<SiteSpec(Arm64Name(entry.name), arm64_start + entry.va.v,
                              PyStr(orig_hex), patch_hex)>>
              ELSE <<>>)
             \o SpecsFromSavedArm64(Rest(saved_arm64), arm64_start)

\* [p for p in stereo_patches if p.get("arch") == "arm64"]
Arm64Only(stereo_patches) == SelectSeq(stereo_patches, LAMBDA p : p.arch = "arm64")

\* The first record that carries both fat_offset and va, or 0.
FirstDual(arm64_sp) ==
    IF \E i \in DOMAIN arm64_sp : ~IsNone(arm64_sp[i].fat_offset) /\ ~IsNone(arm64_sp[i].va)
    THEN CHOOSE i \in DOMAIN arm64_sp :
            /\ ~IsNone(arm64_sp[i].fat_offset) /\ ~IsNone(arm64_sp[i].va)
            /\ \A j \in 1..(i - 1) : IsNone(arm64_sp[j].fat_offset) \/ IsNone(arm64_sp[j].va)
    ELSE 0

\* A variant of get_patch_specs that takes the recorded offsets as they are.
SpecsShiftNone(arm64_sp, current_arm64_start) == 0

\* lines 224-232: the shift of get_patch_specs
SpecsShift(arm64_sp, current_arm64_start) ==
    LET i == FirstDual(arm64_sp)
    IN  IF ~IsNone(current_arm64_start) /\ i # 0
        THEN current_arm64_start.v - (arm64_sp[i].fat_offset.v - arm64_sp[i].va.v)
        ELSE 0

\* lines 233-242
RECURSIVE SpecsFromStereo(_, _)
SpecsFromStereo(arm64_sp, shift) ==
    IF arm64_sp = <<>> THEN <<>>
    ELSE LET p         == Head(arm64_sp)
             orig_hex  == NormHex(OrEmpty(p.orig))
             patch_hex == NormHex(OrEmpty(p.patch))
         IN  (IF ~IsNone(p.fat_offset) /\ orig_hex # <<>> /\ patch_hex # <<>>
                 /\ Len(orig_hex) = Len(patch_hex)
              THEN <<SiteSpec(Arm64Name(p.name), p.fat_offset.v + shift,
                              PyStr(orig_hex), patch_hex)>>
              ELSE <<>>)
             \o SpecsFromStereo(Rest(arm64_sp), shift)

\* A variant of get_patch_specs that resolves the ARM64 sites from the
\* document even when metadata is saved.
Arm64SpecsFromDocument(saved_arm64, export_data, data) ==
    LET arm64_sp == Arm64Only(export_data.stereo_patches)
    IN  SpecsFromStereo(arm64_sp, SpecsShift(arm64_sp, GetArm64SliceOffset(data)))

\* lines 204-242
Arm64Specs(saved_arm64, export_data, data) ==
    IF saved_arm64 # <<>>
    THEN LET arm64_start == GetArm64SliceOffset(data)
         IN  IF ~IsNone(arm64_start)
             THEN SpecsFromSavedArm64(saved_arm64, arm64_start.v)
             ELSE <<>>
    ELSE LET arm64_sp == Arm64Only(export_data.stereo_patches)
         IN  SpecsFromStereo(arm64_sp, SpecsShift(arm64_sp, GetArm64SliceOffset(data)))

\* get_patch_specs(export_data, node_path): m is the metadata file and data the
\* content of node_path
GetPatchSpecs(export_data, node_path_str, m, data) ==
    LET saved == LoadPatchMetadata(m, node_path_str)
    IN  X86Specs(saved.x86, export_data) \o Arm64Specs(saved.arm64, export_data, data)

\* ------------------------------------------------------------------------
\* check_patch_status and the report of --check-only
\* ------------------------------------------------------------------------

\* lines 257-271: the status of one site
SiteStatus(data, site) ==
    LET length      == Len(FromHex(site.patch))
        current_hex == Lower(ToHex(PySlice(data, site.file_offset,
                                           site.file_offset + length)))
    IN  IF site.file_offset + length > data.len THEN "other"
        ELSE IF current_hex = site.patch THEN "patched"
        ELSE IF Truthy(site.expected) /\ current_hex = site.expected.s THEN "unpatched"
        ELSE "other"

\* check_patch_status(node_path, patch_specs)
CheckPatchStatus(data, patch_specs) ==
    LET details == [i \in DOMAIN patch_specs |->
                      [name |-> patch_specs[i].name,
                       status |-> SiteStatus(data, patch_specs[i])]]
    IN  [unpatched |-> Cardinality({i \in DOMAIN details : details[i].status = "unpatched"}),
         patched   |-> Cardinality({i \in DOMAIN details : details[i].status = "patched"}),
         details   |-> details]

\* A variant of the report that takes one patched site for all of them.
CheckOnlyReportAnyPatched(unpatched_n, patched_n, details) ==
    LET total == Len(details)
    IN  IF total = 0 THEN "UNPATCHED (no patch sites found)"
        ELSE IF patched_n > 0 THEN "PATCHED"
        ELSE IF unpatched_n = total THEN "UNPATCHED"
        ELSE "PARTIAL"

\* main, lines 656-665: the line printed by --check-only
CheckOnlyReport(unpatched_n, patched_n, details) ==
    LET total == Len(details)
    IN  IF total = 0 THEN "UNPATCHED (no patch sites found)"
        ELSE IF patched_n = total THEN "PATCHED"
        ELSE IF unpatched_n = total THEN "UNPATCHED"
        ELSE "PARTIAL"

\* ------------------------------------------------------------------------
\* The byte-patch engines
\* ------------------------------------------------------------------------

\* main, lines 643-650: the name -> offset table handed to apply_byte_patches
RECURSIVE OffsetsOfPatches(_)
OffsetsOfPatches(patches) ==
    IF patches = <<>> THEN <<>>
    ELSE LET p    == patches[Len(patches)]
             rest == OffsetsOfPatches(SubSeq(patches, 1, Len(patches) - 1))
         IN  IF ~IsNone(p.file_offset) THEN DictSet(rest, p.name, p.file_offset) ELSE rest

MainFileOffsets(export_data) ==
    IF export_data.file_offsets # <<>> THEN export_data.file_offsets
    ELSE OffsetsOfPatches(export_data.patches)

\* A variant of the turn of apply_byte_patches without the test of line 388.
ByteLoopBodyNoBounds(st, e, file_offsets) ==
    LET off   == OffsetValue(DictGet(file_offsets, e.k))
        patch == FromHex(RemoveSpaces(e.v))
    IN  IF ~DictHas(file_offsets, e.k) THEN st
        ELSE [data |-> PySetSlice(st.data, off, off + Len(patch), patch),
              applied |-> st.applied + 1,
              applied_offsets |-> DictSet(st.applied_offsets, e.k, off),
              buf_writes |-> st.buf_writes + 1]

\* lines 381-392, one turn of the loop of apply_byte_patches: st is the buffer
\* and the counts so far, e the entry of PATCH_BYTES_BY_NAME
ByteLoopBody(st, e, file_offsets) ==
    LET off   == OffsetValue(DictGet(file_offsets, e.k))
        patch == FromHex(RemoveSpaces(e.v))
    IN  IF ~DictHas(file_offsets, e.k) THEN st
        ELSE IF off + Len(patch) > st.data.len THEN st
        ELSE [data |-> PySetSlice(st.data, off, off + Len(patch), patch),
              applied |-> st.applied + 1,
              applied_offsets |-> DictSet(st.applied_offsets, e.k, off),
              buf_writes |-> st.buf_writes + 1]

RECURSIVE ByteLoop(_, _, _)
ByteLoop(st, table, file_offsets) ==
    IF table = <<>> THEN st
    ELSE Only({ByteLoop(next, Rest(table), file_offsets) :
                 next \in {ByteLoopBody(st, Head(table), file_offsets)}})

\* apply_byte_patches(node_path, file_offsets): data is the content read; the
\* result holds the content written back (node_path.write_bytes(data): always)
ApplyBytePatches(data, file_offsets) ==
    LET st == ByteLoop([data |-> data, applied |-> 0, applied_offsets |-> <<>>,
                        buf_writes |-> 0],
                       PATCH_BYTES_BY_NAME, file_offsets)
    IN  [data |-> st.data, applied |-> st.applied,
         applied_offsets |-> st.applied_offsets, arm64_meta |-> <<>>,
         buf_writes |-> st.buf_writes, file_writes |-> 1]

\* _hex_str_to_bytes(s)
HexStrToBytes(x) ==
    LET s == RemoveSpaces(OrEmpty(x))
    IN  IF s = <<>> THEN <<>> ELSE FromHex(s)

\* A variant of apply_stereo_patches_from_json that takes the recorded offsets
\* as they are.
ApplyShiftNone(arm64_patches, current_arm64_start) == 0

\* lines 323-333: the shift of apply_stereo_patches_from_json
ApplyShift(arm64_patches, current_arm64_start) ==
    LET i == FirstDual(arm64_patches)
        original_arm64_start ==
            IF i # 0 THEN PyInt(arm64_patches[i].fat_offset.v - arm64_patches[i].va.v)
            ELSE None
    IN  IF ~IsNone(original_arm64_start) /\ current_arm64_start # original_arm64_start.v
        THEN current_arm64_start - original_arm64_start.v
        ELSE 0

\* A variant of the record that takes the offset the document recorded for
\* the offset in the file.
AppliedMetaRecorded(p, adjusted_fo, current_arm64_start) ==
    [name |-> p.name,
     va |-> IF Truthy(p.va) THEN p.va ELSE PyInt(p.fat_offset.v - current_arm64_start),
     orig |-> p.orig, patch |-> p.patch]

\* lines 359 and 366: the record kept for the metadata
AppliedMeta(p, adjusted_fo, current_arm64_start) ==
    [name |-> p.name,
     va |-> IF Truthy(p.va) THEN p.va ELSE PyInt(adjusted_fo - current_arm64_start),
     orig |-> p.orig, patch |-> p.patch]

\* A variant of the loop body without the test for bytes that are already
\* the patch: what is not the original is skipped.
StereoLoopBodyExactOnly(st, p, shift, current_arm64_start) ==
    LET adjusted_fo == p.fat_offset.v + shift
        orig    == HexStrToBytes(p.orig)
        patch   == HexStrToBytes(p.patch)
        current == PySlice(st.data, adjusted_fo, adjusted_fo + Len(orig))
        skipped == [st EXCEPT !.skipped = Append(@, p.name)]
    IN  IF IsNone(p.fat_offset) THEN st
        ELSE IF orig = <<>> \/ patch = <<>> \/ Len(patch) # Len(orig) THEN skipped
        ELSE IF adjusted_fo + Len(patch) > st.data.len THEN skipped
        ELSE IF current # orig THEN skipped
        ELSE [st EXCEPT
                 !.applied = @ + 1,
                 !.applied_meta = Append(@, AppliedMeta(p, adjusted_fo, current_arm64_start)),
                 !.data = PySetSlice(st.data, adjusted_fo, adjusted_fo + Len(patch), patch),
                 !.buf_writes = @ + 1]

\* A variant of the loop body that compares at the adjusted offset but writes
\* at the recorded one.
StereoLoopBodyWritesRecorded(st, p, shift, current_arm64_start) ==
    LET adjusted_fo == p.fat_offset.v + shift
        orig    == HexStrToBytes(p.orig)
        patch   == HexStrToBytes(p.patch)
        current == PySlice(st.data, adjusted_fo, adjusted_fo + Len(orig))
        counted == [st EXCEPT !.applied = @ + 1,
                       !.applied_meta = Append(@, AppliedMeta(p, adjusted_fo,
                                                              current_arm64_start))]
        skipped == [st EXCEPT !.skipped = Append(@, p.name)]
    IN  IF IsNone(p.fat_offset) THEN st
        ELSE IF orig = <<>> \/ patch = <<>> \/ Len(patch) # Len(orig) THEN skipped
        ELSE IF adjusted_fo + Len(patch) > st.data.len THEN skipped
        ELSE IF current # orig
             THEN IF current = patch THEN counted ELSE skipped
        ELSE [counted EXCEPT
                 !.data = PySetSlice(st.data, p.fat_offset.v,
                                     p.fat_offset.v + Len(patch), patch),
                 !.buf_writes = @ + 1]

\* A variant of the loop body that writes the patch over whatever the site
\* holds, unless it holds the patch already.
StereoLoopBodyForced(st, p, shift, current_arm64_start) ==
    LET adjusted_fo == p.fat_offset.v + shift
        orig    == HexStrToBytes(p.orig)
        patch   == HexStrToBytes(p.patch)
        current == PySlice(st.data, adjusted_fo, adjusted_fo + Len(orig))
        counted == [st EXCEPT !.applied = @ + 1,
                       !.applied_meta = Append(@, AppliedMeta(p, adjusted_fo,
                                                              current_arm64_start))]
        skipped == [st EXCEPT !.skipped = Append(@, p.name)]
    IN  IF IsNone(p.fat_offset) THEN st
        ELSE IF orig = <<>> \/ patch = <<>> \/ Len(patch) # Len(orig) THEN skipped
        ELSE IF adjusted_fo + Len(patch) > st.data.len THEN skipped
        ELSE IF current # orig /\ current = patch THEN counted
        ELSE [counted EXCEPT
                 !.data = PySetSlice(st.data, adjusted_fo, adjusted_fo + Len(patch), patch),
                 !.buf_writes = @ + 1]

\* lines 339-367, one turn of the loop of apply_stereo_patches_from_json
StereoLoopBody(st, p, shift, current_arm64_start) ==
    LET adjusted_fo == p.fat_offset.v + shift
        orig    == HexStrToBytes(p.orig)
        patch   == HexStrToBytes(p.patch)
        current == PySlice(st.data, adjusted_fo, adjusted_fo + Len(orig))
        counted == [st EXCEPT !.applied = @ + 1,
                       !.applied_meta = Append(@, AppliedMeta(p, adjusted_fo,
                                                              current_arm64_start))]
        skipped == [st EXCEPT !.skipped = Append(@, p.name)]
    IN  IF IsNone(p.fat_offset) THEN st
        ELSE IF orig = <<>> \/ patch = <<>> \/ Len(patch) # Len(orig) THEN skipped
        ELSE IF adjusted_fo + Len(patch) > st.data.len THEN skipped
        ELSE IF current # orig
             THEN IF current = patch THEN counted ELSE skipped
        ELSE [counted EXCEPT
                 !.data = PySetSlice(st.data, adjusted_fo, adjusted_fo + Len(patch), patch),
                 !.buf_writes = @ + 1]

RECURSIVE StereoLoop(_, _, _, _)
StereoLoop(st, ps, shift, current_arm64_start) ==
    IF ps = <<>> THEN st
    ELSE Only({StereoLoop(next, Rest(ps), shift, current_arm64_start) :
                 next \in {StereoLoopBody(st, Head(ps), shift, current_arm64_start)}})

\* if applied > 0: node_path.write_bytes(data)
StereoFlushes(applied) == IF applied > 0 THEN 1 ELSE 0

\* apply_stereo_patches_from_json(node_path, stereo_patches)
ApplyStereoPatchesFromJson(data, stereo_patches) ==
    LET arm64_patches == Arm64Only(stereo_patches)
        current_arm64_start == GetArm64SliceOffset(data)
        nothing == [data |-> data, applied |-> 0, applied_offsets |-> <<>>,
                    arm64_meta |-> <<>>, buf_writes |-> 0, file_writes |-> 0]
    IN  IF stereo_patches = <<>> THEN nothing
        ELSE IF arm64_patches = <<>> THEN nothing
        ELSE IF IsNone(current_arm64_start) THEN nothing
        ELSE LET st == StereoLoop([data |-> data, applied |-> 0, applied_meta |-> <<>>,
                                   skipped |-> <<>>, buf_writes |-> 0],
                                  arm64_patches,
                                  ApplyShift(arm64_patches, current_arm64_start.v),
                                  current_arm64_start.v)
             IN  [data |-> IF st.applied > 0 THEN st.data ELSE data,
                  applied |-> st.applied, applied_offsets |-> <<>>,
                  arm64_meta |-> st.applied_meta,
                  buf_writes |-> st.buf_writes,
                  file_writes |-> StereoFlushes(st.applied)]

\* PatcherEngine.apply_byte_patch(node_path, offset, hex_bytes, description):
\* the file after the write, and whether the read-back equals the bytes
GuiApplyBytePatch(data, offset, hex_bytes) ==
    LET bytes   == FromHex(hex_bytes)
        written == FileWriteAt(data, offset, bytes)
        actual  == FileReadAt(written, offset, Len(bytes))
    IN  [data |-> written, success |-> (actual = bytes)]

\* lines 463-470, one turn of the loop of apply_all_byte_patches
GuiLoopBody(st, patch, fat_offset) ==
    LET r == GuiApplyBytePatch(st.data, patch.offset + fat_offset, patch.hex_bytes)
    IN  [data |-> r.data,
         ok   |-> IF r.success THEN st.ok + 1 ELSE st.ok,
         fail |-> IF r.success THEN st.fail ELSE st.fail + 1,
         file_writes |-> st.file_writes + 1]

\* The loop: each turn starts from the state the turn before it left.
RECURSIVE GuiLoop(_, _, _)
GuiLoop(st, patches, fat_offset) ==
    IF patches = <<>> THEN st
    ELSE Only({GuiLoop(next, Rest(patches), fat_offset) :
                 next \in {GuiLoopBody(st, Head(patches), fat_offset)}})

\* PatcherEngine.apply_all_byte_patches(node_path, fat_offset=fat_offset)
GuiApplyAllBytePatches(data, fat_offset) ==
    GuiLoop([data |-> data, ok |-> 0, fail |-> 0, file_writes |-> 0],
            BYTE_PATCHES, fat_offset)

\* is_fat_binary(node_path): file(1) reports "universal binary" for a file
\* that starts with the magic CA FE BA BE
IsFatBinary(data) == FileReadAt(data, 0, 4) = <<202, 254, 186, 190>>

\* check_status(node_path): the byte at 0xA296FF + fat offset
CheckStatus(data) ==
    LET byte == FileReadAt(data, BYTE_PATCHES[1].offset + GetFatOffset(data), 1)
    IN  IF byte = <<1>> THEN "unpatched"
        ELSE IF byte = <<2>> THEN "patched"
        ELSE "unknown"

\* verify_patches(node_path, fat_offset): passed or not, per entry of BYTE_PATCHES
VerifyPatches(data, fat_offset) ==
    [i \in DOMAIN BYTE_PATCHES |->
        LET expected == FromHex(BYTE_PATCHES[i].hex_bytes)
        IN  FileReadAt(data, BYTE_PATCHES[i].offset + fat_offset, Len(expected)) = expected]

\* ------------------------------------------------------------------------
\* The injector (inject_patcher.cpp as write_injector_cpp writes it)
\* ------------------------------------------------------------------------

\* static const size_t MAX_SIZE  = 400;
MAX_SIZE == 400

\* size_t arithmetic wraps around.  size_t is 64 bits wide; the integers of
\* the model checker are 32 bits wide, so the wrap-around is taken modulo
\* 2^30.  Every offset and size of the model is far below 2^29, so each
\* comparison comes out as it does modulo 2^64.
SizeTModulus == 2 ^ 30

SizeT(n) == n % SizeTModulus

\* The machine code of hp_cutoff and dc_reject: n bytes each.
HpCode(n) == [i \in 1..n |-> 161]

DcCode(n) == [i \in 1..n |-> 178]

\* memcpy((char*)data + offset, code, size) into the mapping of the file
Memcpy(data, offset, code) == FileWriteAt(data, offset, code)

\* line 440: if ((size_t)hp_size > (DC_OFFSET - HP_OFFSET)) "ERROR: overlap"
OverlapRejected(HP_OFFSET, DC_OFFSET, hp_size, dc_size) ==
    SizeT(hp_size) > SizeT(DC_OFFSET - HP_OFFSET)

\* What the injector leaves when it returns 1: the file as it was, no blob
\* copied; `opened` tells whether open(argv[1], O_RDWR) had run.
InjectorFailed(data, opened) == [rc |-> 1, data |-> data, copies |-> 0, opened |-> opened]

\* A variant of the injector that does not test the size of dc_reject.
RunInjectorHpSizeOnly(data, HP_OFFSET, DC_OFFSET, hp_size, dc_size) ==
    IF hp_size <= 0 \/ hp_size > MAX_SIZE THEN InjectorFailed(data, FALSE)
    ELSE IF OverlapRejected(HP_OFFSET, DC_OFFSET, hp_size, dc_size)
         THEN InjectorFailed(data, FALSE)
    ELSE IF SizeT(HP_OFFSET + hp_size) > data.len
            \/ SizeT(DC_OFFSET + dc_size) > data.len THEN InjectorFailed(data, TRUE)
    ELSE [rc |-> 0,
          data |-> Memcpy(Memcpy(data, HP_OFFSET, HpCode(hp_size)),
                          DC_OFFSET, DcCode(dc_size)),
          copies |-> 2, opened |-> TRUE]

\* main of the injector, lines 434-456: the exit status, the file afterwards
\* and the number of blobs copied
RunInjector(data, HP_OFFSET, DC_OFFSET, hp_size, dc_size) ==
    IF hp_size <= 0 \/ hp_size > MAX_SIZE THEN InjectorFailed(data, FALSE)
    ELSE IF dc_size <= 0 \/ dc_size > MAX_SIZE THEN InjectorFailed(data, FALSE)
    ELSE IF OverlapRejected(HP_OFFSET, DC_OFFSET, hp_size, dc_size)
         THEN InjectorFailed(data, FALSE)
    ELSE IF SizeT(HP_OFFSET + hp_size) > data.len
            \/ SizeT(DC_OFFSET + dc_size) > data.len THEN InjectorFailed(data, TRUE)
    ELSE [rc |-> 0,
          data |-> Memcpy(Memcpy(data, HP_OFFSET, HpCode(hp_size)),
                          DC_OFFSET, DcCode(dc_size)),
          copies |-> 2, opened |-> TRUE]

\* HP_CUTOFF_OFFSET = 0x403A90
HP_CUTOFF_OFFSET == 4209296

\* DC_REJECT_OFFSET = 0x403C20
DC_REJECT_OFFSET == 4209696

\* The second memcpy of the fixed-offset injector runs past the end of the
\* mapping when the dc_reject range exceeds the file: undefined behaviour.
\* The bytes that lie inside the file reach it or not; the process is killed
\* by the fault ("fault", before or after those bytes), or the excess falls
\* into the rest of the last page and the injector returns 0 ("slack").
MemcpyOutcomes == {"slack", "fault", "fault_early"}

\* The status subprocess.run reports for a process killed by SIGBUS.
KilledBySignal == 0 - 10

\* main of the injector of the fixed-offset engine (INJECTOR_CPP, lines
\* 177-220): only the hp_cutoff range is tested against the file size
GuiRunInjector(data, HP_OFFSET, DC_OFFSET, hp_size, dc_size, outcome) ==
    IF hp_size <= 0 \/ hp_size > MAX_SIZE THEN InjectorFailed(data, FALSE)
    ELSE IF dc_size <= 0 \/ dc_size > MAX_SIZE THEN InjectorFailed(data, FALSE)
    ELSE IF OverlapRejected(HP_OFFSET, DC_OFFSET, hp_size, dc_size)
         THEN InjectorFailed(data, FALSE)
    ELSE IF SizeT(HP_OFFSET + hp_size) > data.len THEN InjectorFailed(data, TRUE)
    ELSE LET hp_done == Memcpy(data, HP_OFFSET, HpCode(hp_size))
             inside  == Max(0, Min(dc_size, data.len - DC_OFFSET))
             partial == IF inside = 0 THEN hp_done
                        ELSE Memcpy(hp_done, DC_OFFSET, SubSeq(DcCode(dc_size), 1, inside))
         IN  IF DC_OFFSET + dc_size <= data.len
             THEN [rc |-> 0, data |-> Memcpy(hp_done, DC_OFFSET, DcCode(dc_size)),
                   copies |-> 2, opened |-> TRUE]
             ELSE IF outcome = "slack"
                  THEN [rc |-> 0, data |-> partial, copies |-> 2, opened |-> TRUE]
             ELSE IF outcome = "fault"
                  THEN [rc |-> KilledBySignal, data |-> partial, copies |-> 1,
                        opened |-> TRUE]
             ELSE [rc |-> KilledBySignal, data |-> hp_done, copies |-> 1,
                   opened |-> TRUE]

\* get_injection_offsets(export_data): (hp_offset, dc_offset), None if absent
RECURSIVE InjectionScan(_, _)
InjectionScan(sites, acc) ==
    IF sites = <<>> THEN acc
    ELSE LET site == Head(sites)
         IN  InjectionScan(Rest(sites),
                 IF site.name = "HighpassCutoffFilter" THEN [acc EXCEPT !.hp = site.file_offset]
                 ELSE IF site.name = "DcReject" THEN [acc EXCEPT !.dc = site.file_offset]
                 ELSE acc)

GetInjectionOffsets(export_data) ==
    LET r == InjectionScan(export_data.injection_sites, [hp |-> None, dc |-> None])
    IN  [hp |-> IF IsStr(r.hp) THEN PyInt(ParseHexInt(r.hp.s)) ELSE r.hp,
         dc |-> IF IsStr(r.dc) THEN PyInt(ParseHexInt(r.dc.s)) ELSE r.dc]

\* ------------------------------------------------------------------------
\* What runs beside the engine: signature removal, and a byte range rewritten
\* ------------------------------------------------------------------------

\* The header entry (its offset in the file) of the ARM64 slice, 0 if none.
Arm64Entry(data) ==
    LET n == ClampCount(UnpackBE(data, 4))
        hits == {i \in 0..(n - 1) : 8 + i * 20 + 20 <= data.len
                                    /\ UnpackBE(data, 8 + i * 20) = CPU_ARM64}
    IN  IF hits = {} THEN 0 ELSE 8 + 20 * (CHOOSE i \in hits : \A j \in hits : i <= j)

\* codesign --remove-signature (and re-signing) resizes what precedes the
\* ARM64 slice: the slice, the last of the file, moves by delta with its
\* content, and the header names its new offset.
MoveArm64Slice(data, delta) ==
    LET base  == GetArm64SliceOffset(data).v
        kept  == {k \in DOMAIN data.mem : k < Min(base, base + delta)}
        moved == {k \in DOMAIN data.mem : k >= base}
        shifted == [len |-> data.len + delta,
                    mem |-> [i \in kept \cup {k + delta : k \in moved} |->
                               IF i \in kept THEN data.mem[i] ELSE data.mem[i - delta]]]
    IN  PySetSlice(shifted, Arm64Entry(data) + 8, Arm64Entry(data) + 12,
                   PackBE(base + delta))

\* ------------------------------------------------------------------------
\* The inputs: target files and discovery documents
\* ------------------------------------------------------------------------

\* str(node_path)
NODE_PATH == "/discord/modules/discord_voice/discord_voice.node"

Hex01 == <<"0", "1">>

Hex75 == <<"7", "5">>

\* mov w1, #1 -> mov w1, #2 and nop -> ret, as the finder writes them
ArmOrig1 == <<"2", "1", " ", "0", "0", " ", "8", "0", " ", "5", "2">>

ArmPatch1 == <<"4", "1", " ", "0", "0", " ", "8", "0", " ", "5", "2">>

ArmPatch1b == <<"6", "1", " ", "0", "0", " ", "8", "0", " ", "5", "2">>

ArmOrig2 == <<"1", "F", " ", "2", "0", " ", "0", "3", " ", "D", "5">>

ArmPatch2 == <<"C", "0", " ", "0", "3", " ", "5", "F", " ", "D", "6">>

\* A thin (single-architecture) image of n bytes with the two x86_64 sites at
\* 0x100 and 0x101.
ThinFile(n, b100, b101) == MakeFile(n, << <<256, <<b100, b101>> >> >>)

\* A universal image: the header (magic, two entries), the x86_64 slice at
\* 0x40 with its sites at 0x100 and 0x101, and the ARM64 slice at arm_off with
\* its sites at va 0x200 and 0x300.
FatFile(arm_off, arm_size) ==
    MakeFile(arm_off + arm_size,
        << <<0, <<202, 254, 186, 190>> \o PackBE(2)>>,
           <<8, CPU_X86_64 \o PackBE(3) \o PackBE(64) \o PackBE(arm_off - 64) \o PackBE(0)>>,
           <<28, CPU_ARM64 \o PackBE(0) \o PackBE(arm_off) \o PackBE(arm_size) \o PackBE(0)>>,
           <<256, <<1, 117>> >>,
           <<arm_off + 512, FromHex(ArmOrig1)>>,
           <<arm_off + 768, FromHex(ArmOrig2)>> >>)

StartFiles ==
    { ThinFile(8192, 1, 117),        \* 0x2000 bytes, both sites unpatched
      ThinFile(257, 1, 0),           \* ends right after the site at 0x100
      FatFile(4096, 4096),           \* the layout the finder recorded
      FatFile(4080, 4096) }          \* the ARM64 slice 16 bytes lower

NoDoc == [patches |-> <<>>, file_offsets |-> <<>>, stereo_patches |-> <<>>,
          injection_sites |-> <<>>]

Patch(name, off, expected) ==
    [name |-> name, file_offset |-> off, expected_original |-> expected]

Stereo(arch, name, fo, va, orig, patch) ==
    [arch |-> arch, name |-> name, fat_offset |-> fo, va |-> va,
     orig |-> orig, patch |-> patch]

KV(k, v) == [k |-> k, v |-> v]

\* The x86_64 parts a document can have.
X86Docs ==
    { \* one site, named in both tables
      [NoDoc EXCEPT !.patches = <<Patch("EmulateStereoSuccess1", PyInt(256), PyStr(Hex01))>>,
                    !.file_offsets = <<KV("EmulateStereoSuccess1", PyInt(256))>>],
      \* offsets as hex strings, one of them only in file_offsets, an upper-case
      \* expected value, and a name the engine does not know
      [NoDoc EXCEPT !.patches = <<Patch("EmulateStereoSuccess1",
                                        PyStr(<<"0", "x", "1", "0", "0">>), PyStr(Hex01)),
                                  Patch("EmulateStereoSuccess2", None, PyStr(Hex75)),
                                  Patch("NotAPatchName", PyInt(258), PyStr(Hex01))>>,
                    !.file_offsets = <<KV("EmulateStereoSuccess1", PyInt(256)),
                                       KV("EmulateStereoSuccess2", PyStr(<<"1", "0", "1">>))>>],
      \* only the flat table; the second site ends past a file of 0x2000 bytes
      [NoDoc EXCEPT !.file_offsets = <<KV("CreateAudioFrameStereo", PyInt(8190)),
                                       KV("EmulateStereoSuccess1", PyInt(256))>>],
      \* only `patches`; two sites share a byte
      [NoDoc EXCEPT !.patches = <<Patch("EmulateStereoSuccess2", PyInt(257), PyStr(Hex75)),
                                  Patch("CreateAudioFrameStereo", PyInt(257), None)>>] }

\* The stereo_patches a document can have, recorded on the layout whose ARM64
\* slice is at 0x1000.
StereoDocs ==
    { \* every record carries fat_offset and va
      [NoDoc EXCEPT !.stereo_patches =
          <<Stereo("x86_64", "StereoX86", PyInt(256), PyInt(192), PyStr(Hex01), PyStr(Hex75)),
            Stereo("arm64", "Stereo1", PyInt(4608), PyInt(512), PyStr(ArmOrig1), PyStr(ArmPatch1)),
            Stereo("arm64", "Stereo2", PyInt(4864), PyInt(768), PyStr(ArmOrig2), PyStr(ArmPatch2))>>],
      \* no record carries va
      [NoDoc EXCEPT !.stereo_patches =
          <<Stereo("arm64", "Stereo1", PyInt(4608), None, PyStr(ArmOrig1), PyStr(ArmPatch1)),
            Stereo("arm64", "Stereo2", PyInt(4864), None, PyStr(ArmOrig2), PyStr(ArmPatch2))>>],
      \* the first record has no va, the second has one
      [NoDoc EXCEPT !.stereo_patches =
          <<Stereo("arm64", "Stereo1", PyInt(4608), None, PyStr(ArmOrig1), PyStr(ArmPatch1)),
            Stereo("arm64", "Stereo2", PyInt(4864), PyInt(768), PyStr(ArmOrig2), PyStr(ArmPatch2))>>],
      \* a record without fat_offset, one whose orig and patch differ in length
      [NoDoc EXCEPT !.stereo_patches =
          <<Stereo("arm64", "Stereo1", None, PyInt(512), PyStr(ArmOrig1), PyStr(ArmPatch1)),
            Stereo("arm64", "Stereo2", PyInt(4864), PyInt(768), PyStr(ArmOrig2), PyStr(Hex01)),
            Stereo("arm64", "Stereo3", PyInt(4608), PyInt(512), PyStr(ArmOrig1), PyStr(ArmPatch1))>>],
      \* two records for the same bytes, the second expecting what the first writes
      [NoDoc EXCEPT !.stereo_patches =
          <<Stereo("arm64", "Stereo1", PyInt(4608), PyInt(512), PyStr(ArmOrig1), PyStr(ArmPatch1)),
            Stereo("arm64", "Stereo1b", PyInt(4608), PyInt(512), PyStr(ArmPatch1), PyStr(ArmPatch1b))>>] }

\* A whole document: x86_64 sites and ARM64 sites together.
FullDocs ==
    { [NoDoc EXCEPT !.patches = <<Patch("EmulateStereoSuccess1", PyInt(256), PyStr(Hex01)),
                                  Patch("EmulateStereoSuccess2", PyInt(257), PyStr(Hex75))>>,
                    !.stereo_patches =
          <<Stereo("arm64", "Stereo1", PyInt(4608), PyInt(512), PyStr(ArmOrig1), PyStr(ArmPatch1)),
            Stereo("arm64", "Stereo2", PyInt(4864), PyInt(768), PyStr(ArmOrig2), PyStr(ArmPatch2))>>] }

Docs == {NoDoc} \cup X86Docs \cup StereoDocs \cup FullDocs

\* ------------------------------------------------------------------------
\* The state
\* ------------------------------------------------------------------------

\* At most this many steps of the environment (the slice moved, a site
\* rewritten from outside) in one behaviour.
MaxEnv == 1

VARIABLES
    file,    \* the content of discord_voice.node
    meta,    \* the content of patch_metadata.json
    export,  \* the document the offset finder wrote for this file
    sess,    \* what the apply steps returned: x86_applied_offsets, arm64_meta
    last,    \* the latest operation: its name and what it returned and did
    env      \* the number of steps of the environment so far

vars == <<file, meta, export, sess, last, env>>

\* The record of an operation: its name, for a patch step whether the same
\* step ran right before it (and then the applied count of that run), the
\* length of the file before it, whether it changed the file, and the fields
\* of its result.
Did(op, pre, post, result) ==
    LET again == op \in {"apply_bytes", "apply_stereo", "gui_patch", "inject", "gui_inject"}
                 /\ last.op = op
    IN  [op |-> op, repeat |-> again,
         prev_applied |-> IF again THEN last.applied ELSE 0,
         pre_len |-> pre.len, changed |-> (post # pre)] @@ result

NoResult == [applied |-> 0]

\* The sites get_patch_specs resolves in the current state.
CurrentSpecs == GetPatchSpecs(export, NODE_PATH, meta, file)

\* Metadata left by a session on another file.
OtherMeta ==
    SavePatchMetadata("/discordcanary/modules/discord_voice/discord_voice.node",
                      <<KV("EmulateStereoSuccess1", 4096)>>, <<>>)

IsFat(data) == ~IsNone(GetArm64SliceOffset(data))

Start ==
    /\ sess = [x86 |-> <<>>, arm64 |-> <<>>]
    /\ last = [op |-> "start", applied |-> 0]
    /\ env = 0

Init ==
    /\ file \in StartFiles
    /\ export \in Docs
    /\ export.stereo_patches # <<>> => IsFat(file)
    /\ meta \in {NoMeta, OtherMeta}
    /\ meta = OtherMeta => export \in FullDocs
    /\ Start

\* main --check-only, lines 652-670: resolve the sites, classify, report
CheckOnly ==
    LET specs == CurrentSpecs
        st    == CheckPatchStatus(file, specs)
    IN  /\ last' = Did("check", file, file,
                       [applied |-> 0, total |-> Len(st.details),
                        unpatched |-> st.unpatched, patched |-> st.patched,
                        report |-> CheckOnlyReport(st.unpatched, st.patched, st.details)])
        /\ UNCHANGED <<file, meta, export, sess, env>>

\* main, step 4 (line 695): apply_byte_patches(node_path, file_offsets)
ApplyBytes ==
    LET r == ApplyBytePatches(file, MainFileOffsets(export))
    IN  /\ file' = r.data
        /\ sess' = [sess EXCEPT !.x86 = r.applied_offsets]
        /\ last' = Did("apply_bytes", file, r.data,
                       [applied |-> r.applied, buf_writes |-> r.buf_writes,
                        file_writes |-> r.file_writes, before |-> file])
        /\ UNCHANGED <<meta, export, env>>

\* main, step 5b (line 711): apply_stereo_patches_from_json(node_path, stereo_patches)
ApplyStereo ==
    LET r == ApplyStereoPatchesFromJson(file, export.stereo_patches)
    IN  /\ file' = r.data
        /\ sess' = [sess EXCEPT !.arm64 = r.arm64_meta]
        /\ last' = Did("apply_stereo", file, r.data,
                       [applied |-> r.applied, buf_writes |-> r.buf_writes,
                        file_writes |-> r.file_writes, before |-> file])
        /\ UNCHANGED <<meta, export, env>>

\* main, line 722: _save_patch_metadata(str(node_path), x86_applied_offsets, arm64_meta)
SaveMetadata ==
    /\ last.op \in {"apply_bytes", "apply_stereo"}
    /\ meta' = SavePatchMetadata(NODE_PATH, sess.x86, sess.arm64)
    /\ last' = Did("save", file, file, NoResult)
    /\ UNCHANGED <<file, export, sess, env>>

\* codesign --remove-signature moved the ARM64 slice of a universal file: it
\* runs after the classification and before the byte patches (line 691), and
\* again after the metadata is saved (line 733)
RemoveSignature(delta) ==
    /\ env < MaxEnv
    /\ last.op \in {"start", "check", "save"}
    /\ IsFat(file)
    /\ file' = MoveArm64Slice(file, delta)
    /\ last' = Did("move", file, file', [applied |-> 0, delta |-> delta, before |-> file])
    /\ env' = env + 1
    /\ UNCHANGED <<meta, export, sess>>

\* By how much signature removal moves the slice.
SliceMoves == {-16, 16}

InBounds(data, site) == site.file_offset + Len(FromHex(site.patch)) <= data.len

\* The expected-original bytes of a site written at the site.
RestoreSite(data, site) ==
    PySetSlice(data, site.file_offset,
               site.file_offset + Len(FromHex(site.expected.s)),
               FromHex(site.expected.s))

\* After a patch step the original bytes of a resolved site are written back
\* at the site; the record keeps the operation this follows.
WriteOriginal(site) ==
    /\ env < MaxEnv
    /\ last.op \in {"apply_bytes", "apply_stereo", "save"}
    /\ Truthy(site.expected)
    /\ InBounds(file, site)
    /\ file' = RestoreSite(file, site)
    /\ last' = Did("write_original", file, file',
                   [applied |-> 0, site |-> site, after |-> last.op])
    /\ env' = env + 1
    /\ UNCHANGED <<meta, export, sess>>

\* Before or after a patch step the first byte of a resolved site is
\* overwritten with 0xFF, which is neither an original nor a replacement byte
\* of any site.
Corrupt(site) ==
    /\ env < MaxEnv
    /\ last.op \in {"start", "apply_bytes", "apply_stereo", "save"}
    /\ InBounds(file, site)
    /\ file' = PySetSlice(file, site.file_offset, site.file_offset + 1, <<255>>)
    /\ last' = Did("corrupt", file, file', [applied |-> 0, site |-> site])
    /\ env' = env + 1
    /\ UNCHANGED <<meta, export, sess>>

Rewrite ==
    LET specs == CurrentSpecs
    IN  \E i \in DOMAIN specs : WriteOriginal(specs[i]) \/ Corrupt(specs[i])

Next ==
    \/ CheckOnly
    \/ ApplyBytes
    \/ ApplyStereo
    \/ SaveMetadata
    \/ \E delta \in SliceMoves : RemoveSignature(delta)
    \/ Rewrite

Spec == Init /\ [][Next]_vars

\* ------------------------------------------------------------------------
\* The injection step on its own
\* ------------------------------------------------------------------------

InjectionSite(name, off) == [name |-> name, file_offset |-> off]

\* The injection_sites a document can have.
InjectDocs ==
    { \* the two gaps 400 bytes apart, as in the fixed-offset engine
      [NoDoc EXCEPT !.injection_sites =
          <<InjectionSite("HighpassCutoffFilter", PyInt(1024)),
            InjectionSite("DcReject", PyInt(1424))>>],
      \* offsets as hex strings; DcReject 16 bytes after HighpassCutoffFilter
      [NoDoc EXCEPT !.injection_sites =
          <<InjectionSite("HighpassCutoffFilter", PyStr(<<"0", "x", "5", "0", "0">>)),
            InjectionSite("DcReject", PyStr(<<"0", "x", "5", "1", "0">>))>>],
      \* DcReject 16 bytes before HighpassCutoffFilter
      [NoDoc EXCEPT !.injection_sites =
          <<InjectionSite("DcReject", PyInt(1264)),
            InjectionSite("HighpassCutoffFilter", PyInt(1280))>>],
      \* DcReject 400 bytes before HighpassCutoffFilter
      [NoDoc EXCEPT !.injection_sites =
          <<InjectionSite("DcReject", PyInt(880)),
            InjectionSite("HighpassCutoffFilter", PyInt(1280))>>],
      \* a site is missing
      [NoDoc EXCEPT !.injection_sites =
          <<InjectionSite("HighpassCutoffFilter", PyInt(1024))>>] }

\* (hp_size, dc_size): the sizes of the compiled hp_cutoff and dc_reject
InjectSizes ==
    {<<8, 8>>, <<8, 32>>, <<32, 8>>, <<32, 32>>, <<16, 16>>, <<17, 16>>,
     <<400, 400>>, <<0, 8>>, <<8, 0>>, <<401, 8>>, <<8, 401>>,
     <<0 - 1, 8>>, <<8, 0 - 1>>}

\* The sizes the injector of the fixed-offset engine is run with.
GuiInjectSizes ==
    {<<8, 8>>, <<8, 32>>, <<32, 8>>, <<16, 2>>, <<0, 8>>, <<8, 401>>, <<0 - 1, 8>>}

InjectFiles == {ThinFile(8192, 1, 117), ThinFile(1440, 1, 117)}

\* Files for the injector of the fixed-offset engine: one of 0x2000 bytes, one
\* that ends between the two blobs, one that ends 4 bytes into the dc_reject
\* range, one that holds both ranges whatever the sizes.
GuiInjectFiles ==
    { ThinFile(8192, 1, 117),
      ThinFile(DC_REJECT_OFFSET - 100, 1, 117),
      ThinFile(DC_REJECT_OFFSET + 4, 1, 117),
      ThinFile(DC_REJECT_OFFSET + 2 * MAX_SIZE, 1, 117) }

InitInject ==
    /\ file \in InjectFiles
    /\ export \in InjectDocs
    /\ meta = NoMeta
    /\ Start

\* main, lines 677-705: the injection offsets of the document, then the
\* injector compiled with them and run on the file
Inject(hp_size, dc_size) ==
    LET offs == GetInjectionOffsets(export)
        r    == IF IsNone(offs.hp) \/ IsNone(offs.dc)
                THEN InjectorFailed(file, FALSE)
                ELSE RunInjector(file, offs.hp.v, offs.dc.v, hp_size, dc_size)
    IN  /\ file' = r.data
        /\ last' = Did("inject", file, r.data,
                       [applied |-> 0, rc |-> r.rc, copies |-> r.copies,
                        opened |-> r.opened, hp |-> offs.hp, dc |-> offs.dc,
                        hp_size |-> hp_size, dc_size |-> dc_size])
        /\ UNCHANGED <<meta, export, sess, env>>

\* compile_and_inject, lines 489-527: the injector of the fixed-offset engine
\* compiled with the two fixed offsets + fat_offset and run on the file
GuiInject(hp_size, dc_size, outcome) ==
    LET fat_offset == IF IsFatBinary(file) THEN GetFatOffset(file) ELSE 0
        hp_off == HP_CUTOFF_OFFSET + fat_offset
        dc_off == DC_REJECT_OFFSET + fat_offset
        r == GuiRunInjector(file, hp_off, dc_off, hp_size, dc_size, outcome)
    IN  /\ file' = r.data
        /\ last' = Did("gui_inject", file, r.data,
                       [applied |-> 0, rc |-> r.rc, copies |-> r.copies,
                        opened |-> r.opened, hp |-> PyInt(hp_off), dc |-> PyInt(dc_off),
                        hp_size |-> hp_size, dc_size |-> dc_size])
        /\ UNCHANGED <<meta, export, sess, env>>

NextInject == \E sizes \in InjectSizes : Inject(sizes[1], sizes[2])

SpecInject == InitInject /\ [][NextInject]_vars

\* The injector of the fixed-offset engine run on a file.
InitGuiInject ==
    /\ file \in GuiInjectFiles
    /\ export = NoDoc
    /\ meta = NoMeta
    /\ Start

NextGuiInject ==
    \E sizes \in GuiInjectSizes, outcome \in MemcpyOutcomes :
        GuiInject(sizes[1], sizes[2], outcome)

SpecGuiInject == InitGuiInject /\ [][NextGuiInject]_vars

\* ------------------------------------------------------------------------
\* The fixed-offset engine on its own
\* ------------------------------------------------------------------------

\* A file of n bytes that holds `marker` at the first fixed offset.
GuiFile(n, marker) == MakeFile(n, << <<BYTE_PATCHES[1].offset, <<marker>> >> >>)

GuiFiles ==
    { GuiFile(11534336, 1),     \* every fixed offset lies inside the file
      GuiFile(10655488, 1),     \* ends right after the first fixed offset
      GuiFile(8192, 0),         \* 0x2000 bytes: every fixed offset lies past the end
      FatFile(4096, 4096) }     \* a universal file of 0x2000 bytes

InitGui ==
    /\ file \in GuiFiles
    /\ export = NoDoc
    /\ meta = NoMeta
    /\ Start

\* full_patch, lines 566-584: the fat offset, then apply_all_byte_patches
GuiPatch ==
    LET fat_offset == IF IsFatBinary(file) THEN GetFatOffset(file) ELSE 0
        r == GuiApplyAllBytePatches(file, fat_offset)
    IN  /\ file' = r.data
        /\ last' = Did("gui_patch", file, r.data,
                       [applied |-> r.ok, fail |-> r.fail, fat_offset |-> fat_offset,
                        file_writes |-> r.file_writes])
        /\ UNCHANGED <<meta, export, sess, env>>

\* check_status(node_path)
GuiCheck ==
    /\ last' = Did("gui_check", file, file, [applied |-> 0, status |-> CheckStatus(file)])
    /\ UNCHANGED <<file, meta, export, sess, env>>

\* _do_verify, lines 1311-1312: get_fat_offset, then verify_patches
GuiVerify ==
    /\ last' = Did("gui_verify", file, file,
                   [applied |-> 0, passed |-> VerifyPatches(file, GetFatOffset(file))])
    /\ UNCHANGED <<file, meta, export, sess, env>>

\* One byte of a fixed site inside the file is overwritten from outside.
GuiCorrupt(i) ==
    /\ env < MaxEnv
    /\ BYTE_PATCHES[i].offset < file.len
    /\ file' = FileWriteAt(file, BYTE_PATCHES[i].offset, <<255>>)
    /\ last' = Did("gui_corrupt", file, file', [applied |-> 0, index |-> i])
    /\ env' = env + 1
    /\ UNCHANGED <<meta, export, sess>>

NextGui ==
    \/ GuiPatch
    \/ GuiCheck
    \/ GuiVerify
    \/ \E i \in DOMAIN BYTE_PATCHES : GuiCorrupt(i)

SpecGui == InitGui /\ [][NextGui]_vars

\* ------------------------------------------------------------------------
\* A whole session of the adaptive engine (main, lines 607-762)
\* ------------------------------------------------------------------------

\* What the run of the finder can come to (run_offset_finder, lines 119-146):
\* the script is not there, it runs into the timeout, it exits with a status
\* above 1, it leaves a file that json.load rejects, it leaves an empty JSON
\* object, it exits with status 1 and leaves a document, it exits with status
\* 0 and leaves a document.
DiscoveryOutcomes ==
    {"missing", "timeout", "failed", "unparsable", "empty", "exit1", "ok"}

\* The exit status of the finder in each outcome in which it ran to its end.
FinderReturnCode(outcome) ==
    CASE outcome = "failed" -> 2
      [] outcome = "exit1"  -> 1
      [] OTHER              -> 0

\* A variant of run_offset_finder that does not look at the exit status.
RunOffsetFinderAnyStatus(outcome, doc) ==
    IF outcome = "missing" THEN [ok |-> FALSE, data |-> NoDoc, falsy |-> TRUE]
    ELSE IF outcome = "timeout" THEN [ok |-> FALSE, data |-> NoDoc, falsy |-> TRUE]
    ELSE IF outcome = "unparsable" THEN [ok |-> FALSE, data |-> NoDoc, falsy |-> TRUE]
    ELSE IF outcome = "empty" THEN [ok |-> TRUE, data |-> NoDoc, falsy |-> TRUE]
    ELSE [ok |-> TRUE, data |-> doc, falsy |-> FALSE]

\* run_offset_finder(node_path, export_path): (success, json_data); `falsy`
\* tells None and {} from a document, doc is what the finder writes when it
\* writes one
RunOffsetFinder(outcome, doc) ==
    IF outcome = "missing" THEN [ok |-> FALSE, data |-> NoDoc, falsy |-> TRUE]
    ELSE IF outcome = "timeout" THEN [ok |-> FALSE, data |-> NoDoc, falsy |-> TRUE]
    ELSE IF FinderReturnCode(outcome) > 1 THEN [ok |-> FALSE, data |-> NoDoc, falsy |-> TRUE]
    ELSE IF outcome = "unparsable" THEN [ok |-> FALSE, data |-> NoDoc, falsy |-> TRUE]
    ELSE IF outcome = "empty" THEN [ok |-> TRUE, data |-> NoDoc, falsy |-> TRUE]
    ELSE [ok |-> TRUE, data |-> doc, falsy |-> FALSE]

\* create_backup(node_path), lines 149-159: the copy is made, shutil.copy2
\* raises OSError and None is returned, or BACKUP_DIR.mkdir raises (it is
\* outside the try)
BackupOutcomes == {"made", "failed", "raised"}

\* A variant of the gate of line 672 that one patched site opens.
AlreadyPatchedAny(patched_n, details) == patched_n > 0

\* main, line 672: every site found is patched, and there is one
AlreadyPatched(patched_n, details) == patched_n = Len(details) /\ Len(details) > 0

\* compile_and_run_injector, lines 488-505, on the injector that
\* write_injector_cpp wrote for hp and dc
CompileAndRunInjector(data, hp, dc, compiles, hp_size, dc_size) ==
    IF ~compiles THEN [ok |-> FALSE, data |-> data]
    ELSE LET r2 == RunInjector(data, hp, dc, hp_size, dc_size)
         IN  IF r2.rc # 0 THEN [ok |-> FALSE, data |-> r2.data]
             ELSE [ok |-> TRUE, data |-> r2.data]

\* The documents of the sessions: patch sites of both slices and the two
\* injection sites; the same with one more x86_64 site; the same without
\* DcReject; the injection sites alone.
MainDoc ==
    [NoDoc EXCEPT !.patches = <<Patch("EmulateStereoSuccess1", PyInt(256), PyStr(Hex01)),
                                Patch("EmulateStereoSuccess2", PyInt(257), PyStr(Hex75))>>,
                  !.stereo_patches =
        <<Stereo("arm64", "Stereo1", PyInt(4608), PyInt(512), PyStr(ArmOrig1), PyStr(ArmPatch1)),
          Stereo("arm64", "Stereo2", PyInt(4864), PyInt(768), PyStr(ArmOrig2), PyStr(ArmPatch2))>>,
                  !.injection_sites =
        <<InjectionSite("HighpassCutoffFilter", PyInt(1024)),
          InjectionSite("DcReject", PyInt(1424))>>]

MainDocs ==
    { MainDoc,
      \* a third x86_64 site, whose expected_original is one byte
      [MainDoc EXCEPT !.patches =
          Append(@, Patch("CreateAudioFrameStereo", PyInt(512), PyStr(Hex01)))],
      [MainDoc EXCEPT !.injection_sites =
          <<InjectionSite("HighpassCutoffFilter", PyInt(1024))>>],
      [NoDoc EXCEPT !.injection_sites = MainDoc.injection_sites],
      \* `patches` names one site, file_offsets that site and another
      [MainDoc EXCEPT !.patches = <<Patch("EmulateStereoSuccess1", PyInt(256), PyStr(Hex01))>>,
                      !.file_offsets = <<KV("EmulateStereoSuccess1", PyInt(256)),
                                         KV("EmulateStereoSuccess2", PyInt(257))>>] }

MainFiles == {ThinFile(8192, 1, 117), FatFile(4096, 4096)}

\* (hp_size, dc_size) of the blobs the sessions compile
MainInjectSizes == {<<8, 8>>, <<MAX_SIZE + 1, 8>>}

\* A metadata file that is not JSON, and one that holds the JSON list [].
InvalidMeta == [NoMeta EXCEPT !.exists = TRUE, !.form = "invalid"]

ListMeta == [NoMeta EXCEPT !.exists = TRUE, !.form = "not_object"]

\* What an earlier session that ran to its end left (lines 695-722).
EarlierSession(data, doc) ==
    LET b    == ApplyBytePatches(data, MainFileOffsets(doc))
        offs == GetInjectionOffsets(doc)
        inj  == CompileAndRunInjector(b.data, offs.hp.v, offs.dc.v, TRUE, 8, 8)
        st   == ApplyStereoPatchesFromJson(inj.data, doc.stereo_patches)
    IN  [file |-> st.data,
         meta |-> SavePatchMetadata(NODE_PATH, b.applied_offsets, st.arm64_meta)]

\* The file and the metadata a session can find: an unpatched file with no
\* metadata, with metadata of another file, with a metadata file that is not
\* JSON or not an object; what an earlier session left, with its metadata or
\* without; what an earlier session left that stopped after the byte patches.
MainStarts ==
    UNION {
      { [file |-> f, meta |-> m] : m \in {NoMeta, OtherMeta, InvalidMeta, ListMeta} }
      \cup { EarlierSession(f, MainDoc),
             [file |-> EarlierSession(f, MainDoc).file, meta |-> NoMeta],
             [file |-> ApplyBytePatches(f, MainFileOffsets(MainDoc)).data, meta |-> NoMeta] }
      : f \in MainFiles }

\* discord_stereo_patcher_gui.py, line 1106: the method the window passes
Arm64Methods == {"skip", "script"}

InitMain ==
    /\ \E s \in MainStarts : file = s.file /\ meta = s.meta
    /\ export \in MainDocs
    \* lines 608-611: --check-only is a flag; --arm64-method=..., which the
    \* window passes after the path (lines 1106-1110 of the window), is neither
    \* a flag nor args[0], and nothing reads it
    /\ \E check_only \in BOOLEAN, arm64_method \in Arm64Methods :
         sess = [x86 |-> <<>>, arm64 |-> <<>>, pc |-> "discover",
                 check_only |-> check_only, arm64_method |-> arm64_method,
                 rc |-> 0, why |-> "", out |-> "",
                 discovery |-> "", backup |-> "none", steps |-> <<>>,
                 file0 |-> file, meta0 |-> meta]
    /\ last = [op |-> "start", applied |-> 0]
    /\ env = 0

\* sys.exit(rc), or the exit of the interpreter on an uncaught exception
Exit(rc, why) == [sess EXCEPT !.pc = "exit", !.rc = rc, !.why = why]

\* main, lines 628-641: step 1, the discovery pass
MainDiscover(outcome) ==
    /\ sess.pc = "discover"
    /\ LET r == RunOffsetFinder(outcome, export)
       IN  sess' = IF ~r.ok \/ r.falsy
                   THEN [Exit(1, "discovery") EXCEPT !.discovery = outcome]
                   ELSE [sess EXCEPT !.pc = "classify", !.discovery = outcome]
    /\ UNCHANGED <<file, meta, export, last, env>>

\* A variant of lines 656-681 that tests the gate before --check-only.
MainVerdictGateFirst(st, offs) ==
    IF AlreadyPatched(st.patched, st.details) THEN Exit(0, "gate")
    ELSE IF sess.check_only
    THEN [Exit(0, "check") EXCEPT
            !.out = CheckOnlyReport(st.unpatched, st.patched, st.details)]
    ELSE IF IsNone(offs.hp) \/ IsNone(offs.dc) THEN Exit(1, "sites")
    ELSE [sess EXCEPT !.pc = "backup"]

\* A variant of lines 656-681 that tests the injection offsets before the gate.
MainVerdictSitesFirst(st, offs) ==
    IF sess.check_only
    THEN [Exit(0, "check") EXCEPT
            !.out = CheckOnlyReport(st.unpatched, st.patched, st.details)]
    ELSE IF IsNone(offs.hp) \/ IsNone(offs.dc) THEN Exit(1, "sites")
    ELSE IF AlreadyPatched(st.patched, st.details) THEN Exit(0, "gate")
    ELSE [sess EXCEPT !.pc = "backup"]

\* main, lines 656-681: the report of --check-only, the gate of an already
\* patched file, the test of the injection offsets
MainVerdict(st, offs) ==
    IF sess.check_only
    THEN [Exit(0, "check") EXCEPT
            !.out = CheckOnlyReport(st.unpatched, st.patched, st.details)]
    ELSE IF AlreadyPatched(st.patched, st.details) THEN Exit(0, "gate")
    ELSE IF IsNone(offs.hp) \/ IsNone(offs.dc) THEN Exit(1, "sites")
    ELSE [sess EXCEPT !.pc = "backup"]

\* main, lines 643-681: the sites resolved and classified, then the verdict
MainClassify ==
    /\ sess.pc = "classify"
    /\ sess' =
         IF LoadPatchMetadataRaises(meta, NODE_PATH) THEN Exit(1, "traceback")
         ELSE MainVerdict(CheckPatchStatus(file, CurrentSpecs),
                          GetInjectionOffsets(export))
    /\ UNCHANGED <<file, meta, export, last, env>>

\* main, lines 684-688: step 2, the backup; a backup that could not be made
\* is a warning
MainBackup(outcome) ==
    /\ sess.pc = "backup"
    /\ sess' = IF outcome = "raised" THEN Exit(1, "backup_traceback")
               ELSE [sess EXCEPT !.pc = "unsign", !.backup = outcome]
    /\ UNCHANGED <<file, meta, export, last, env>>

\* main, lines 691-692: step 3, codesign --remove-signature on the file;
\* in a fat file the ARM64 slice can come to lie lower
MainUnsign(delta) ==
    /\ sess.pc = "unsign"
    /\ delta # 0 => IsFat(file)
    /\ file' = IF delta = 0 THEN file ELSE MoveArm64Slice(file, delta)
    /\ sess' = [sess EXCEPT !.pc = "bytes", !.steps = Append(@, "unsign")]
    /\ UNCHANGED <<meta, export, last, env>>

\* main, line 695: step 4, the byte patches
MainBytes ==
    /\ sess.pc = "bytes"
    /\ LET r == ApplyBytePatches(file, MainFileOffsets(export))
       IN  /\ file' = r.data
           /\ sess' = [sess EXCEPT !.pc = "inject", !.x86 = r.applied_offsets,
                                   !.steps = Append(@, "bytes")]
    /\ UNCHANGED <<meta, export, last, env>>

\* main, lines 698-705: step 5, the injector written, compiled and run
MainInject(compiles, hp_size, dc_size) ==
    /\ sess.pc = "inject"
    /\ LET offs == GetInjectionOffsets(export)
           r    == CompileAndRunInjector(file, offs.hp.v, offs.dc.v, compiles,
                                         hp_size, dc_size)
       IN  /\ file' = r.data
           /\ sess' = IF ~r.ok THEN Exit(1, "injection")
                      ELSE [sess EXCEPT !.pc = "stereo", !.steps = Append(@, "inject")]
    /\ UNCHANGED <<meta, export, last, env>>

\* main, lines 708-719: step 5b, the ARM64 sites of the document (the script
\* of lines 714-719 is taken to be absent or to change nothing)
MainStereo ==
    /\ sess.pc = "stereo"
    /\ LET r == ApplyStereoPatchesFromJson(file, export.stereo_patches)
       IN  /\ file' = r.data
           /\ sess' = [sess EXCEPT !.pc = "save", !.arm64 = r.arm64_meta,
                                   !.steps = Append(@, "stereo")]
           /\ last' = [op |-> "main_stereo", applied |-> r.applied,
                       buf_writes |-> r.buf_writes, file_writes |-> r.file_writes]
    /\ UNCHANGED <<meta, export, env>>

\* main, line 722: the metadata of the session saved
MainSave ==
    /\ sess.pc = "save"
    /\ meta' = SavePatchMetadata(NODE_PATH, sess.x86, sess.arm64)
    /\ sess' = [sess EXCEPT !.pc = "resign"]
    /\ UNCHANGED <<file, export, last, env>>

\* main, lines 727-761: the inode refreshed, the file signed again, the
\* quarantine cleared, the bypass enabled; the session ends with status 0
MainResign ==
    /\ sess.pc = "resign"
    /\ sess' = [Exit(0, "done") EXCEPT !.steps = Append(@, "resign")]
    /\ UNCHANGED <<file, meta, export, last, env>>

\* restore_backup(backup_path, node_path), discord_stereo_patcher_gui.py lines
\* 298-301, after a session that ended with status 0: the backup of step 2
\* copied over the file and the file signed again (the signature lies outside
\* every site); the persisted metadata is a file of its own and stays
MainRestore ==
    /\ sess.pc = "exit" /\ sess.why = "done" /\ sess.backup = "made"
    /\ last.op \notin {"restore", "recheck"}
    /\ file' = sess.file0
    /\ last' = [op |-> "restore", applied |-> 0]
    /\ UNCHANGED <<meta, export, sess, env>>

\* main, lines 628-670, run with --check-only on the restored file: the
\* discovery pass finds the document again, the sites are resolved with the
\* metadata at hand and the verdict is printed
MainRecheck ==
    /\ last.op = "restore"
    /\ ~LoadPatchMetadataRaises(meta, NODE_PATH)
    /\ LET st == CheckPatchStatus(file, CurrentSpecs)
       IN  last' = [op |-> "recheck", applied |-> 0,
                    out |-> CheckOnlyReport(st.unpatched, st.patched, st.details)]
    /\ UNCHANGED <<file, meta, export, sess, env>>

\* The slice can come to lie 16 bytes lower when the signature is removed.
UnsignMoves == {0, 0 - 16}

NextMain ==
    \/ \E outcome \in DiscoveryOutcomes : MainDiscover(outcome)
    \/ MainClassify
    \/ \E outcome \in BackupOutcomes : MainBackup(outcome)
    \/ \E delta \in UnsignMoves : MainUnsign(delta)
    \/ MainBytes
    \/ \E compiles \in BOOLEAN, sizes \in MainInjectSizes :
         MainInject(compiles, sizes[1], sizes[2])
    \/ MainStereo
    \/ MainSave
    \/ MainResign
    \/ MainRestore
    \/ MainRecheck

SpecMain == InitMain /\ [][NextMain]_vars

\* ------------------------------------------------------------------------
\* A whole session of the fixed-offset engine (_do_patch and full_patch)
\* ------------------------------------------------------------------------

\* compile_and_inject(node_path, fat_offset), lines 481-543
GuiCompileAndInject(data, fat_offset, compiles, hp_size, dc_size, outcome) ==
    IF ~compiles THEN [ok |-> FALSE, data |-> data]
    ELSE LET result == GuiRunInjector(data, HP_CUTOFF_OFFSET + fat_offset,
                                      DC_REJECT_OFFSET + fat_offset,
                                      hp_size, dc_size, outcome)
         IN  IF result.rc # 0 THEN [ok |-> FALSE, data |-> result.data]
             ELSE [ok |-> TRUE, data |-> result.data]

\* apply_arm64_stereo_patches.py, lines 43-52: the loop over the ARM64 records
RECURSIVE Arm64ScriptLoop(_, _)
Arm64ScriptLoop(st, arm64) ==
    IF arm64 = <<>> THEN st
    ELSE LET p     == Head(arm64)
             fo    == p.fat_offset.v
             orig  == HexStrToBytes(p.orig)
             patch == HexStrToBytes(p.patch)
             next  == IF fo + Len(patch) > st.data.len THEN st
                      ELSE IF PySlice(st.data, fo, fo + Len(orig)) # orig THEN st
                      ELSE [data |-> PySetSlice(st.data, fo, fo + Len(patch), patch),
                            applied |-> st.applied + 1]
         IN  Only({Arm64ScriptLoop(n, Rest(arm64)) : n \in {next}})

\* apply_arm64_stereo_patches.py, main: patches is what
\* find_macos_stereo_patches finds in the file
Arm64Script(data, patches) ==
    LET arm64 == Arm64Only(patches)
        st    == Arm64ScriptLoop([data |-> data, applied |-> 0], arm64)
    IN  IF arm64 = <<>> THEN [rc |-> 1, data |-> data, applied |-> 0]
        ELSE IF st.applied > 0 THEN [rc |-> 0, data |-> st.data, applied |-> st.applied]
        ELSE [rc |-> 1, data |-> data, applied |-> 0]

GuiFullFiles ==
    {GuiFile(11534336, 1), GuiFile(10655488, 1), FatFile(4096, 4096), FatFile(4080, 4096)}

\* What the finder of the ARM64 script finds: nothing, or the two ARM64 sites.
GuiFullDocs == {NoDoc, MainDoc}

\* (hp_size, dc_size) of the blobs the sessions compile
GuiFullSizes == {<<8, 8>>, <<32, 8>>, <<8, MAX_SIZE + 1>>}

InitGuiFull ==
    /\ file \in GuiFullFiles
    /\ export \in GuiFullDocs
    /\ export.stereo_patches # <<>> => IsFat(file)
    /\ meta = NoMeta
    /\ \E arm64_method \in {"script", "skip"} :
         sess = [x86 |-> <<>>, arm64 |-> <<>>, pc |-> "backup",
                 arm64_method |-> arm64_method, fat_offset |-> 0,
                 backup |-> "none", steps |-> <<>>, ok |-> 0, fail |-> 0,
                 inj_ok |-> "", report |-> "", file0 |-> file]
    /\ last = [op |-> "start", applied |-> 0]
    /\ env = 0

\* _do_patch, lines 1131-1145: create_backup, which raises when the copy
\* fails (the except of line 1172 ends the session), then chmod
GuiFullBackup(made) ==
    /\ sess.pc = "backup"
    /\ sess' = IF made THEN [sess EXCEPT !.pc = "unsign", !.backup = "made"]
               ELSE [sess EXCEPT !.pc = "exit", !.backup = "failed",
                                 !.report = "Error during patching"]
    /\ UNCHANGED <<file, meta, export, last, env>>

\* full_patch, lines 566-578: the fat offset, then remove_signature
GuiFullUnsign ==
    /\ sess.pc = "unsign"
    /\ sess' = [sess EXCEPT !.pc = "bytes",
                            !.fat_offset = IF IsFatBinary(file) THEN GetFatOffset(file) ELSE 0,
                            !.steps = Append(@, "unsign")]
    /\ UNCHANGED <<file, meta, export, last, env>>

\* full_patch, line 584: apply_all_byte_patches
GuiFullBytes ==
    /\ sess.pc = "bytes"
    /\ LET r == GuiApplyAllBytePatches(file, sess.fat_offset)
       IN  /\ file' = r.data
           /\ sess' = [sess EXCEPT !.pc = "inject", !.ok = r.ok, !.fail = r.fail,
                                   !.steps = Append(@, "bytes")]
    /\ UNCHANGED <<meta, export, last, env>>

\* full_patch, lines 588-592: compile_and_inject, counted as two
\* modifications that succeeded or failed
GuiFullInject(compiles, hp_size, dc_size, outcome) ==
    /\ sess.pc = "inject"
    /\ LET r == GuiCompileAndInject(file, sess.fat_offset, compiles,
                                    hp_size, dc_size, outcome)
       IN  /\ file' = r.data
           /\ sess' = IF r.ok
                      THEN [sess EXCEPT !.pc = "arm64", !.ok = @ + 2, !.inj_ok = "yes",
                                        !.steps = Append(@, "inject")]
                      ELSE [sess EXCEPT !.pc = "arm64", !.fail = @ + 2, !.inj_ok = "no"]
    /\ UNCHANGED <<meta, export, last, env>>

\* full_patch, lines 597-612: the ARM64 script, run on a fat file unless
\* ARM64 is skipped or the script is not there
GuiFullArm64(script_exists) ==
    /\ sess.pc = "arm64"
    /\ IF sess.fat_offset # 0 /\ sess.arm64_method # "skip" /\ script_exists
       THEN /\ file' = Arm64Script(file, export.stereo_patches).data
            /\ sess' = [sess EXCEPT !.pc = "sign", !.steps = Append(@, "arm64")]
       ELSE /\ file' = file
            /\ sess' = [sess EXCEPT !.pc = "sign"]
    /\ UNCHANGED <<meta, export, last, env>>

\* full_patch, lines 614-623, and _do_patch, lines 1150-1166: _codesign signs
\* the file again, then the result is reported
GuiFullSign ==
    /\ sess.pc = "sign"
    /\ sess' = [sess EXCEPT !.pc = "exit", !.steps = Append(@, "sign"),
                            !.report = IF sess.fail = 0 THEN "Complete"
                                       ELSE "Done with errors"]
    /\ UNCHANGED <<file, meta, export, last, env>>

NextGuiFull ==
    \/ \E made \in BOOLEAN : GuiFullBackup(made)
    \/ GuiFullUnsign
    \/ GuiFullBytes
    \/ \E compiles \in BOOLEAN, sizes \in GuiFullSizes, outcome \in MemcpyOutcomes :
         GuiFullInject(compiles, sizes[1], sizes[2], outcome)
    \/ \E script_exists \in BOOLEAN : GuiFullArm64(script_exists)
    \/ GuiFullSign

SpecGuiFull == InitGuiFull /\ [][NextGuiFull]_vars

\* ------------------------------------------------------------------------
\* The metadata store on its own
\* ------------------------------------------------------------------------

\* The paths a record is saved for and asked for.
MetaPaths ==
    {NODE_PATH, "/discordcanary/modules/discord_voice/discord_voice.node"}

\* x86_offsets as apply_byte_patches returns them; the last holds a name that
\* is not in PATCH_BYTES_BY_NAME.
MetaX86 ==
    { <<>>,
      <<KV("EmulateStereoSuccess1", 256)>>,
      <<KV("EmulateStereoSuccess1", 256), KV("EmulateStereoSuccess2", 257)>>,
      <<KV("NotAPatchName", 258), KV("EmulateStereoSuccess2", 257)>> }

\* arm64_meta as apply_stereo_patches_from_json returns it
MetaArm64 ==
    { <<>>,
      <<[name |-> "Stereo1", va |-> PyInt(512), orig |-> PyStr(ArmOrig1),
         patch |-> PyStr(ArmPatch1)]>>,
      <<[name |-> "Stereo1", va |-> PyInt(512), orig |-> PyStr(ArmOrig1),
         patch |-> PyStr(ArmPatch1)],
        [name |-> "Stereo2", va |-> PyInt(768), orig |-> PyStr(ArmOrig2),
         patch |-> PyStr(ArmPatch2)]>> }

NoSave == [saved |-> FALSE, path |-> "", x86 |-> <<>>, arm64 |-> <<>>]

\* sess keeps the arguments of the last save and of the one before it.
InitMeta ==
    /\ file = ThinFile(8192, 1, 117)
    /\ export = NoDoc
    /\ meta \in {NoMeta, InvalidMeta}
    /\ sess = [x86 |-> <<>>, arm64 |-> <<>>, cur |-> NoSave, prev |-> NoSave]
    /\ last = [op |-> "start", applied |-> 0]
    /\ env = 0

\* _save_patch_metadata(node_path_str, x86_offsets, arm64_meta)
MetaSave(node_path_str, x86_offsets, arm64_meta) ==
    /\ meta' = SavePatchMetadata(node_path_str, x86_offsets, arm64_meta)
    /\ sess' = [sess EXCEPT !.prev = sess.cur,
                            !.cur = [saved |-> TRUE, path |-> node_path_str,
                                     x86 |-> x86_offsets, arm64 |-> arm64_meta]]
    /\ last' = [op |-> "meta_save", applied |-> 0]
    /\ UNCHANGED <<file, export, env>>

\* _load_patch_metadata(node_path_str)
MetaLoad(node_path_str) ==
    /\ ~LoadPatchMetadataRaises(meta, node_path_str)
    /\ last' = [op |-> "meta_load", applied |-> 0, path |-> node_path_str,
                result |-> LoadPatchMetadata(meta, node_path_str)]
    /\ UNCHANGED <<file, meta, export, sess, env>>

NextMeta ==
    \/ \E p \in MetaPaths, x \in MetaX86, a \in MetaArm64 : MetaSave(p, x, a)
    \/ \E p \in MetaPaths : MetaLoad(p)

SpecMeta == InitMeta /\ [][NextMeta]_vars

\* ------------------------------------------------------------------------
\* Two sessions side by side, on documents that differ only in byte payloads
\* ------------------------------------------------------------------------

\* Documents whose ARM64 record carries a name of PATCH_BYTES_BY_NAME.
TwinDocs ==
    { [NoDoc EXCEPT
         !.patches = <<Patch("EmulateStereoSuccess1", PyInt(256), PyStr(Hex01)),
                       Patch("EmulateStereoSuccess2", PyInt(257), PyStr(Hex75))>>,
         !.stereo_patches =
           <<Stereo("arm64", "EmulateStereoSuccess1", PyInt(4608), PyInt(512),
                    PyStr(ArmOrig1), PyStr(ArmPatch1)),
             Stereo("arm64", "Stereo2", PyInt(4864), PyInt(768),
                    PyStr(ArmOrig2), PyStr(ArmPatch2))>>],
      [NoDoc EXCEPT
         !.file_offsets = <<KV("EmulateStereoSuccess1", PyInt(256))>>,
         !.stereo_patches =
           <<Stereo("arm64", "EmulateStereoSuccess1", PyInt(4608), None,
                    PyStr(ArmOrig1), PyStr(ArmPatch1))>>] }

\* The documents with the names and offsets of doc and another byte payload in
\* one place: the expected_original of an x86_64 patch, the patch of an ARM64
\* record, or its orig.
Repayloads(doc) ==
    { [doc EXCEPT !.patches[i].expected_original = PyStr(Hex75)] :
        i \in {j \in DOMAIN doc.patches : doc.patches[j].expected_original # PyStr(Hex75)} }
    \cup { [doc EXCEPT !.stereo_patches[i].patch = PyStr(ArmPatch1b)] :
             i \in DOMAIN doc.stereo_patches }
    \cup { [doc EXCEPT !.stereo_patches[i].orig = PyStr(ArmPatch1)] :
             i \in {j \in DOMAIN doc.stereo_patches :
                      doc.stereo_patches[j].orig = PyStr(ArmOrig1)} }

TwinFiles == {FatFile(4096, 4096), FatFile(4080, 4096)}

\* file and export are the first session's, sess.file and sess.export the
\* second's; both start on the same file.
InitTwin ==
    /\ file \in TwinFiles
    /\ export \in TwinDocs
    /\ meta = NoMeta
    /\ \E other \in Repayloads(export) :
         sess = [x86 |-> <<>>, arm64 |-> <<>>, file |-> file, export |-> other,
                 steps |-> <<>>]
    /\ last = [op |-> "start", applied |-> 0]
    /\ env = 0

\* main, line 695, in both sessions
TwinBytes ==
    /\ \A i \in DOMAIN sess.steps : sess.steps[i] # "bytes"
    /\ file' = ApplyBytePatches(file, MainFileOffsets(export)).data
    /\ sess' = [sess EXCEPT
                  !.file = ApplyBytePatches(sess.file, MainFileOffsets(sess.export)).data,
                  !.steps = Append(@, "bytes")]
    /\ UNCHANGED <<meta, export, last, env>>

\* main, line 711, in both sessions
TwinStereo ==
    /\ Len(sess.steps) < Len(<<"bytes", "stereo", "stereo">>)
    /\ file' = ApplyStereoPatchesFromJson(file, export.stereo_patches).data
    /\ sess' = [sess EXCEPT
                  !.file = ApplyStereoPatchesFromJson(sess.file,
                                                      sess.export.stereo_patches).data,
                  !.steps = Append(@, "stereo")]
    /\ UNCHANGED <<meta, export, last, env>>

NextTwin ==
    \/ TwinBytes
    \/ TwinStereo

SpecTwin == InitTwin /\ [][NextTwin]_vars

\* ------------------------------------------------------------------------
\* The window: the event queue of the UI thread and the worker threads
\* ------------------------------------------------------------------------

\* At most this many clicks on action buttons in one behaviour.
MaxClicks == 2

\* The action buttons, in the order _set_buttons_state configures them.
ActionButtons == <<"patch", "restore", "verify", "export">>

Click(button) == [type |-> "click", button |-> button, enabled |-> FALSE]

\* lines 955-958: one callback of root.after(0, ...) per button
Configure(button, enabled) == [type |-> "configure", button |-> button, enabled |-> enabled]

\* _set_buttons_state(enabled) called on the UI thread: the callbacks it
\* queues
SetButtonsState(enabled) == [i \in DOMAIN ActionButtons |-> Configure(ActionButtons[i], enabled)]

\* sess.queue is the event queue of the UI thread, sess.buttons the state of
\* the widgets, sess.workers the worker threads alive: pc 0 while the session
\* runs, i after the i-th callback of the finally clause is queued.
InitUi ==
    /\ file = ThinFile(8192, 1, 117)
    /\ export = NoDoc
    /\ meta = NoMeta
    /\ sess = [x86 |-> <<>>, arm64 |-> <<>>, queue |-> <<>>,
               buttons |-> [b \in {ActionButtons[i] : i \in DOMAIN ActionButtons} |-> TRUE],
               workers |-> {}, started |-> 0]
    /\ last = [op |-> "start", applied |-> 0]
    /\ env = 0

\* The user clicks an action button: the event is queued for the UI thread.
UserClick(button) ==
    /\ env < MaxClicks
    /\ sess' = [sess EXCEPT !.queue = Append(@, Click(button))]
    /\ env' = env + 1
    /\ UNCHANGED <<file, meta, export, last>>

\* The UI thread takes a click from its queue.  A disabled button ignores
\* it.  Otherwise the command runs (_start_patch, _do_restore, _start_verify,
\* _start_export): it returns early (no path, no compiler, the user declines)
\* or it calls _set_buttons_state(False) and starts the worker thread.
UiClick(proceeds) ==
    /\ sess.queue # <<>>
    /\ Head(sess.queue).type = "click"
    /\ LET button == Head(sess.queue).button
       IN  IF sess.buttons[button] /\ proceeds
           THEN /\ sess' = [sess EXCEPT
                              !.queue = Tail(@) \o SetButtonsState(FALSE),
                              !.workers = @ \cup {[id |-> sess.started + 1,
                                                   kind |-> button, pc |-> 0]},
                              !.started = @ + 1]
                /\ last' = [op |-> "session_start", applied |-> 0]
           ELSE /\ sess' = [sess EXCEPT !.queue = Tail(@)]
                /\ last' = [op |-> "click_dropped", applied |-> 0]
    /\ UNCHANGED <<file, meta, export, env>>

\* The UI thread takes a callback of _set_buttons_state from its queue.
UiConfigure ==
    /\ sess.queue # <<>>
    /\ Head(sess.queue).type = "configure"
    /\ sess' = [sess EXCEPT !.queue = Tail(@),
                            !.buttons[Head(sess.queue).button] = Head(sess.queue).enabled]
    /\ UNCHANGED <<file, meta, export, env, last>>

\* A worker thread in its finally clause: _set_buttons_state(True) queues the
\* next callback; after the last one the thread ends.
WorkerStep(id) ==
    /\ \E w \in sess.workers :
         /\ w.id = id
         /\ LET i == w.pc + 1
            IN  sess' = [sess EXCEPT
                           !.queue = Append(@, Configure(ActionButtons[i], TRUE)),
                           !.workers = (@ \ {w}) \cup
                                       (IF i = Len(ActionButtons) THEN {}
                                        ELSE {[w EXCEPT !.pc = i]})]
    /\ UNCHANGED <<file, meta, export, env, last>>

\* The buttons the user clicks.
Clicked == {"patch", "verify"}

NextUi ==
    \/ \E button \in Clicked : UserClick(button)
    \/ \E proceeds \in BOOLEAN : UiClick(proceeds)
    \/ UiConfigure
    \/ \E id \in 1..MaxClicks : WorkerStep(id)

SpecUi == InitUi /\ [][NextUi]_vars

\* ------------------------------------------------------------------------
\* A byte-patch step and a restore of the same file at the same time
\* ------------------------------------------------------------------------

\* The sites of the adaptive engine in this section.
VerifyOffsets ==
    <<KV("EmulateStereoSuccess1", PyInt(256)), KV("EmulateStereoSuccess2", PyInt(257))>>

\* The file is patched by one engine while a restore session (or any other
\* process) may copy the backup over it.  sess.i and sess.phase are the
\* position of apply_all_byte_patches, sess.pc that of apply_byte_patches.
InitVerify ==
    /\ file \in {GuiFile(11534336, 1), ThinFile(8192, 1, 117)}
    /\ export = NoDoc
    /\ meta = NoMeta
    /\ \E engine \in {"gui", "adaptive"} :
         sess = [x86 |-> <<>>, arm64 |-> <<>>, engine |-> engine, backup |-> file,
                 restore |-> "ready", i |-> 1, phase |-> "write", ok |-> 0, fail |-> 0,
                 pc |-> "read", buffer |-> file, applied |-> 0, applied_offsets |-> <<>>]
    /\ last = [op |-> "start", applied |-> 0]
    /\ env = 0

\* PatcherEngine.restore_backup, line 300: shutil.copy2(backup_path, node_path)
VerifyRestore ==
    /\ sess.restore = "ready"
    /\ file' = sess.backup
    /\ sess' = [sess EXCEPT !.restore = "done"]
    /\ last' = [op |-> "restore", applied |-> 0]
    /\ UNCHANGED <<meta, export, env>>

\* apply_byte_patch, lines 444-447: the write of site sess.i
VerifyGuiWrite ==
    /\ sess.engine = "gui"
    /\ sess.i \in DOMAIN BYTE_PATCHES
    /\ sess.phase = "write"
    /\ file' = FileWriteAt(file, BYTE_PATCHES[sess.i].offset,
                           FromHex(BYTE_PATCHES[sess.i].hex_bytes))
    /\ sess' = [sess EXCEPT !.phase = "read"]
    /\ last' = [op |-> "gui_write", applied |-> sess.ok]
    /\ UNCHANGED <<meta, export, env>>

\* apply_byte_patch, lines 450-455, and apply_all_byte_patches, lines 464-469:
\* the read-back of site sess.i and the count
VerifyGuiReadBack ==
    /\ sess.engine = "gui"
    /\ sess.i \in DOMAIN BYTE_PATCHES
    /\ sess.phase = "read"
    /\ LET data    == FromHex(BYTE_PATCHES[sess.i].hex_bytes)
           actual  == FileReadAt(file, BYTE_PATCHES[sess.i].offset, Len(data))
           success == (actual = data)
       IN  /\ sess' = [sess EXCEPT !.i = @ + 1, !.phase = "write",
                                   !.ok = IF success THEN @ + 1 ELSE @,
                                   !.fail = IF success THEN @ ELSE @ + 1]
           /\ last' = [op |-> "gui_read_back", applied |-> sess'.ok,
                       index |-> sess.i, success |-> success]
    /\ UNCHANGED <<file, meta, export, env>>

\* apply_byte_patches, lines 378-392: the file is read and patched in memory
VerifyAdaptiveRead ==
    /\ sess.engine = "adaptive"
    /\ sess.pc = "read"
    /\ LET r == ApplyBytePatches(file, VerifyOffsets)
       IN  sess' = [sess EXCEPT !.pc = "write", !.buffer = r.data,
                                !.applied = r.applied,
                                !.applied_offsets = r.applied_offsets]
    /\ last' = [op |-> "adaptive_read", applied |-> 0]
    /\ UNCHANGED <<file, meta, export, env>>

\* line 393: node_path.write_bytes(data)
VerifyAdaptiveWrite ==
    /\ sess.engine = "adaptive"
    /\ sess.pc = "write"
    /\ file' = sess.buffer
    /\ sess' = [sess EXCEPT !.pc = "return"]
    /\ last' = [op |-> "adaptive_write", applied |-> 0]
    /\ UNCHANGED <<meta, export, env>>

\* line 394: return applied, applied_offsets
VerifyAdaptiveReturn ==
    /\ sess.engine = "adaptive"
    /\ sess.pc = "return"
    /\ sess' = [sess EXCEPT !.pc = "done"]
    /\ last' = [op |-> "adaptive_return", applied |-> sess.applied]
    /\ UNCHANGED <<file, meta, export, env>>

NextVerify ==
    \/ VerifyRestore
    \/ VerifyGuiWrite
    \/ VerifyGuiReadBack
    \/ VerifyAdaptiveRead
    \/ VerifyAdaptiveWrite
    \/ VerifyAdaptiveReturn

SpecVerify == InitVerify /\ [][NextVerify]_vars

\* ------------------------------------------------------------------------
\* The two parsers of the fat header on headers of every shape
\* ------------------------------------------------------------------------

\* The first n bytes of a buffer.
Cut(data, n) ==
    IF n >= data.len THEN data
    ELSE Buffer(n, [i \in {j \in DOMAIN data.mem : j < n} |-> data.mem[i]])

\* An entry of the table of a fat header: cputype, cpusubtype, offset, size,
\* align.
FatEntry(cpu, offset) == cpu \o PackBE(3) \o PackBE(offset) \o PackBE(4096) \o PackBE(12)

\* A header of `len` bytes with the four bytes `magic`, the count `nfat`, an
\* ARM64 entry at index arm_at and an x86_64 entry at index x86_at of the
\* table (none when negative); the offset of an entry tells its index.
HeaderFile(len, magic, nfat, arm_at, x86_at) ==
    Cut(MakeFile(len,
            << <<0, magic \o PackBE(nfat)>> >>
            \o (IF arm_at < 0 THEN <<>>
                ELSE << <<8 + arm_at * 20, FatEntry(CPU_ARM64, 8192 + arm_at)>> >>)
            \o (IF x86_at < 0 THEN <<>>
                ELSE << <<8 + x86_at * 20, FatEntry(CPU_X86_64, 4096 + x86_at)>> >>)),
        len)

\* The lengths of the headers: empty, below the 32 bytes of the shortest
\* header, one and two entries, all the 512 bytes the GUI reads, more.
HeaderLengths == {0, 8, 31, 32, 48, 440, 512, 8192}

\* The magic as the file holds it: CA FE BA BE and CA FE BA BF (universal
\* files), their bytes reversed, a thin Mach-O file, zeros.
HeaderMagics ==
    {<<202, 254, 186, 190>>, <<202, 254, 186, 191>>, <<190, 186, 254, 202>>,
     <<207, 250, 237, 254>>, <<0, 0, 0, 0>>}

\* The counts a header declares: none, as many as there are entries, more
\* than the 20 entries the parsers look at, more than 2^24.
HeaderCounts == {0, 1, 2, 21, 255, 16777217}

\* Where an entry lies in the table: nowhere, first, second, at index 19 and
\* at index 20.
EntryPlaces == {0 - 1, 0, 1, 19, 20}

InitFat ==
    /\ \E len \in HeaderLengths, magic \in HeaderMagics, nfat \in HeaderCounts,
          arm_at \in EntryPlaces, x86_at \in EntryPlaces :
         /\ (arm_at # x86_at \/ arm_at < 0)
         /\ file = HeaderFile(len, magic, nfat, arm_at, x86_at)
         /\ sess = [x86 |-> <<>>, arm64 |-> <<>>, magic |-> magic, nfat |-> nfat,
                    arm_at |-> arm_at, x86_at |-> x86_at]
    /\ export = NoDoc
    /\ meta = NoMeta
    /\ last = [op |-> "start", applied |-> 0]
    /\ env = 0

\* _get_arm64_slice_offset(data) on the file
FatArm64 ==
    /\ last' = [op |-> "arm64_slice_offset", applied |-> 0,
                result |-> GetArm64SliceOffset(file)]
    /\ UNCHANGED <<file, meta, export, sess, env>>

\* PatcherEngine.get_fat_offset(node_path) on the file
FatGui ==
    /\ last' = [op |-> "fat_offset", applied |-> 0, result |-> PyInt(GetFatOffset(file))]
    /\ UNCHANGED <<file, meta, export, sess, env>>

NextFat ==
    \/ FatArm64
    \/ FatGui

SpecFat == InitFat /\ [][NextFat]_vars

\* ------------------------------------------------------------------------
\* What the worker threads send to the window
\* ------------------------------------------------------------------------

\* st is the window: the event queue of the UI thread, the lines of the log
\* widget, the state of the other widgets, and the threads that have changed
\* a widget.

\* A variant of _log that inserts the line into the widget from the calling
\* thread.
LogDirect(st, worker, n) ==
    [st EXCEPT !.log_text = Append(@, [worker |-> worker, n |-> n]),
               !.touched = @ \cup {worker}]

\* _log(message): root.after(0, _append)
Log(st, worker, n) ==
    [st EXCEPT !.queue = Append(@, [type |-> "append", button |-> "log_text",
                                    enabled |-> FALSE, worker |-> worker, n |-> n])]

\* A callback that sets one widget: the progress bar, a label, a button.
Update(widget, worker, n) ==
    [type |-> "update", button |-> widget, enabled |-> TRUE, worker |-> worker, n |-> n]

\* _set_progress(current, total): two callbacks
SetProgress(st, worker, n) ==
    [st EXCEPT !.queue = @ \o <<Update("progress_var", worker, n),
                                Update("progress_label", worker, n)>>]

\* root.after(0, lambda: self.progress_label.configure(text=...))
SetLabel(st, worker, n) ==
    [st EXCEPT !.queue = Append(@, Update("progress_label", worker, n))]

\* _set_buttons_state(True) in the finally clause of a worker
EnableButtons(st, worker, n) ==
    [st EXCEPT !.queue = @ \o [i \in DOMAIN ActionButtons |->
                                 Update(ActionButtons[i], worker, n)]]

\* What a worker calls, in order: _do_patch on the fixed-offset path (lines
\* 1127-1177) and _do_verify (lines 1308-1341), shortened to one call of a
\* kind where the code repeats it.
WorkerScript(kind) ==
    IF kind = "patch" THEN <<"log", "progress", "log", "label", "buttons">>
    ELSE <<"log", "log", "label", "buttons">>

\* The n-th call of the script of a worker
Call(st, worker, kind, n) ==
    LET what == WorkerScript(kind)[n]
    IN  IF what = "log" THEN Log(st, worker, n)
        ELSE IF what = "progress" THEN SetProgress(st, worker, n)
        ELSE IF what = "label" THEN SetLabel(st, worker, n)
        ELSE EnableButtons(st, worker, n)

\* The sessions that run at once: one, or (two clicks taken before the
\* buttons were disabled) two.
WorkerSets == {<<"patch">>, <<"verify">>, <<"patch", "verify">>, <<"patch", "patch">>}

InitLog ==
    /\ file = ThinFile(8192, 1, 117)
    /\ export = NoDoc
    /\ meta = NoMeta
    /\ \E kinds \in WorkerSets :
         sess = [x86 |-> <<>>, arm64 |-> <<>>, kinds |-> kinds,
                 pc |-> [w \in DOMAIN kinds |-> 0],
                 queue |-> <<>>, log_text |-> <<>>,
                 widgets |-> [b \in {} |-> 0], touched |-> {}]
    /\ last = [op |-> "start", applied |-> 0]
    /\ env = 0

\* A worker thread makes the next call of its script.
WorkerCall(w) ==
    /\ w \in DOMAIN sess.kinds
    /\ sess.pc[w] < Len(WorkerScript(sess.kinds[w]))
    /\ sess' = [Call(sess, w, sess.kinds[w], sess.pc[w] + 1) EXCEPT !.pc[w] = @ + 1]
    /\ UNCHANGED <<file, meta, export, last, env>>

\* The UI thread runs the first callback of its queue: _append inserts the
\* line at the end of the log; the others configure their widget.
UiRun ==
    /\ sess.queue # <<>>
    /\ LET cb == Head(sess.queue)
       IN  sess' = [sess EXCEPT
                      !.queue = Tail(@),
                      !.log_text = IF cb.type = "append"
                                   THEN Append(@, [worker |-> cb.worker, n |-> cb.n])
                                   ELSE @,
                      !.widgets = IF cb.type = "append" THEN @
                                  ELSE [b \in DOMAIN @ \cup {cb.button} |->
                                          IF b = cb.button THEN cb.worker ELSE @[b]],
                      !.touched = @ \cup {0}]
    /\ UNCHANGED <<file, meta, export, last, env>>

NextLog ==
    \/ \E w \in {1, 2} : WorkerCall(w)
    \/ UiRun

SpecLog == InitLog /\ [][NextLog]_vars

\* ------------------------------------------------------------------------
\* Sessions of the window from their start to their end
\* ------------------------------------------------------------------------

\* A session the user asks for: the button, and for a patch the path
\* _do_patch takes (the adaptive script for a version other than 0.0.376).
Ask(button, path) == [button |-> button, path |-> path]

Asks ==
    {Ask("patch", "fixed"), Ask("patch", "adaptive"), Ask("restore", "fixed"),
     Ask("verify", "fixed"), Ask("export", "fixed")}

\* What the user asks for in a behaviour: one session, or a second one whose
\* click may be taken while the first runs.
Plans ==
    {<<a>> : a \in Asks}
    \cup {<<a, Ask("verify", "fixed")>> : a \in Asks}

\* How the work of a session ends: it succeeds, it reports failures, it
\* raises, or (adaptive path) subprocess.run raises TimeoutExpired.
Outcomes(path) ==
    {"ok", "failures", "raised"} \cup (IF path = "adaptive" THEN {"timeout"} ELSE {})

\* A variant in which _set_buttons_state(True) stands at the end of the try
\* block instead of the finally clause.
EnablingCallsAtEndOfTry(path, outcome) ==
    IF outcome \in {"raised", "timeout"} THEN 0
    ELSE IF path = "adaptive" THEN 2 ELSE 1

\* How often the worker calls _set_buttons_state(True) before it ends: in
\* the finally clause always, and before that at line 1122 when the adaptive
\* script has returned.
EnablingCalls(path, outcome) ==
    IF path = "adaptive" /\ outcome \in {"ok", "failures"} THEN 2 ELSE 1

InitLive ==
    /\ file = ThinFile(8192, 1, 117)
    /\ export = NoDoc
    /\ meta = NoMeta
    /\ \E plan \in Plans :
         sess = [x86 |-> <<>>, arm64 |-> <<>>, plan |-> plan, queue |-> <<>>,
                 buttons |-> [b \in {ActionButtons[i] : i \in DOMAIN ActionButtons} |-> TRUE],
                 workers |-> {}, started |-> 0, ended |-> 0]
    /\ last = [op |-> "start", applied |-> 0]
    /\ env = 0

\* The UI thread takes the next click: a disabled button ignores it;
\* otherwise the command calls _set_buttons_state(False) and starts its worker
\* thread.
LiveClick ==
    /\ sess.plan # <<>>
    /\ LET ask == Head(sess.plan)
       IN  IF sess.buttons[ask.button]
           THEN sess' = [sess EXCEPT
                           !.plan = Tail(@),
                           !.queue = @ \o SetButtonsState(FALSE),
                           !.workers = @ \cup {[id |-> sess.started + 1, kind |-> ask.button,
                                                path |-> ask.path, pc |-> 0, calls |-> 0]},
                           !.started = @ + 1]
           ELSE sess' = [sess EXCEPT !.plan = Tail(@)]
    /\ UNCHANGED <<file, meta, export, last, env>>

\* The work of a session ends with an outcome.
LiveWork(id, outcome) ==
    /\ \E w \in sess.workers :
         /\ w.id = id
         /\ w.pc = 0
         /\ w.calls = 0
         /\ outcome \in Outcomes(w.path)
         /\ LET calls == EnablingCalls(w.path, outcome)
            IN  sess' = [sess EXCEPT
                           !.workers = (@ \ {w}) \cup
                                       (IF calls = 0 THEN {} ELSE {[w EXCEPT !.calls = calls]}),
                           !.ended = IF calls = 0 THEN @ + 1 ELSE @]
    /\ last' = [op |-> "work", applied |-> 0, outcome |-> outcome]
    /\ UNCHANGED <<file, meta, export, env>>

\* The worker in _set_buttons_state(True): it queues the next callback; after
\* the last callback of its last call the thread ends.
LiveEnable(id) ==
    /\ \E w \in sess.workers :
         /\ w.id = id
         /\ w.calls > 0
         /\ LET i == w.pc + 1
                over == i = Len(ActionButtons)
            IN  sess' = [sess EXCEPT
                           !.queue = Append(@, Configure(ActionButtons[i], TRUE)),
                           !.workers = (@ \ {w}) \cup
                                       (IF over /\ w.calls = 1 THEN {}
                                        ELSE IF over
                                        THEN {[w EXCEPT !.pc = 0, !.calls = @ - 1]}
                                        ELSE {[w EXCEPT !.pc = i]}),
                           !.ended = IF over /\ w.calls = 1 THEN @ + 1 ELSE @]
    /\ UNCHANGED <<file, meta, export, last, env>>

NextLive ==
    \/ LiveClick
    \/ \E id \in {1, 2}, outcome \in Outcomes("adaptive") : LiveWork(id, outcome)
    \/ \E id \in {1, 2} : LiveEnable(id)
    \/ UiConfigure

\* Every thread that can run does run in the end; the user need not click.
SpecLive ==
    /\ InitLive
    /\ [][NextLive]_vars
    /\ WF_vars(UiConfigure)
    /\ \A id \in {1, 2} :
         /\ WF_vars(\E outcome \in Outcomes("adaptive") : LiveWork(id, outcome))
         /\ WF_vars(LiveEnable(id))

\* ------------------------------------------------------------------------
\* The backup directory (create_backup and restore_backup of the window)
\* ------------------------------------------------------------------------

\* discord_stereo_patcher_gui.py, line 282: backups[10:] are unlinked
KeepBackups == 10

\* The calls a session of the model adds to the earlier ones.
MaxCalls == 3

\* The patch sessions that ran before: each made its backup, then wrote the
\* file.
EarlierSessions == {0, KeepBackups - 1, KeepBackups}

\* The backups a call can leave: sorted(..., key=st_mtime, reverse=True)[:10].
\* Files of equal st_mtime come in the order of glob, which is any order.
KeptSets(all) ==
    {kept \in SUBSET all :
        /\ Cardinality(kept) = Min(KeepBackups, Cardinality(all))
        /\ \A a \in kept, b \in all \ kept : a.mtime >= b.mtime}

InitBackup ==
    /\ file = ThinFile(8192, 1, 117)
    /\ export = NoDoc
    /\ meta = NoMeta
    /\ \E n \in EarlierSessions :
         sess = [x86 |-> <<>>, arm64 |-> <<>>,
                 backups |-> {[ts |-> t, mtime |-> t - 1] : t \in 1..n},
                 node_mtime |-> n, now |-> n + 1, calls |-> 0]
    /\ last = [op |-> "start", applied |-> 0]
    /\ env = 0

\* create_backup(node_path), lines 273-285: the path is named after the
\* second of the call; shutil.copy2 (line 278) copies the file with its
\* st_mtime; all but ten backups are unlinked; the path is returned
CreateBackup ==
    /\ sess.calls < MaxCalls
    /\ LET new == [ts |-> sess.now, mtime |-> sess.node_mtime]
           all == sess.backups \cup {new}
       IN  \E kept \in KeptSets(all) :
             /\ sess' = [sess EXCEPT !.backups = kept, !.now = @ + 1, !.calls = @ + 1]
             /\ last' = [op |-> "create_backup", applied |-> 0, returned |-> new,
                         before |-> sess.backups]
    /\ UNCHANGED <<file, meta, export, env>>

\* restore_backup(backup_path, node_path), lines 298-301: shutil.copy2 gives
\* the file the st_mtime of the backup; _codesign (lines 328-340) renames the
\* file and runs codesign without looking at its status, so the file is
\* written again (signed) or left as copied
RestoreBackup(ts, signed) ==
    /\ sess.calls < MaxCalls
    /\ \E b \in sess.backups :
         /\ b.ts = ts
         /\ sess' = [sess EXCEPT !.node_mtime = IF signed THEN sess.now ELSE b.mtime,
                                 !.now = @ + 1, !.calls = @ + 1]
    /\ last' = [op |-> "restore_backup", applied |-> 0]
    /\ UNCHANGED <<file, meta, export, env>>

\* full_patch, lines 564-623: the file is written
BackupPatch ==
    /\ sess.calls < MaxCalls
    /\ sess' = [sess EXCEPT !.node_mtime = sess.now, !.now = @ + 1, !.calls = @ + 1]
    /\ last' = [op |-> "full_patch", applied |-> 0]
    /\ UNCHANGED <<file, meta, export, env>>

NextBackup ==
    \/ CreateBackup
    \/ \E ts \in 1..(KeepBackups + MaxCalls), signed \in BOOLEAN : RestoreBackup(ts, signed)
    \/ BackupPatch

SpecBackup == InitBackup /\ [][NextBackup]_vars

\* ------------------------------------------------------------------------
\* Properties
\* ------------------------------------------------------------------------

Applies == {"apply_bytes", "apply_stereo"}

Range(s) == {s[i] : i \in DOMAIN s}

\* The bytes the file holds at a site.
SiteBytes(data, site) == FileReadAt(data, site.file_offset, Len(FromHex(site.patch)))

\* The records of the document apply_stereo_patches_from_json works on, and
\* the state its loop starts from.
Arm64Records == Arm64Only(export.stereo_patches)

StereoStart(data) ==
    [data |-> data, applied |-> 0, applied_meta |-> <<>>, skipped |-> <<>>,
     buf_writes |-> 0]

ByteStart(data) ==
    [data |-> data, applied |-> 0, applied_offsets |-> <<>>, buf_writes |-> 0]

\* No two ARM64 records of the document name a common byte.
DisjointStereo ==
    \A i, j \in DOMAIN Arm64Records :
        LET p == Arm64Records[i]
            q == Arm64Records[j]
        IN  (i # j /\ ~IsNone(p.fat_offset) /\ ~IsNone(q.fat_offset))
            => \/ p.fat_offset.v + Len(HexStrToBytes(p.patch)) <= q.fat_offset.v
               \/ q.fat_offset.v + Len(HexStrToBytes(q.patch)) <= p.fat_offset.v

\* One ARM64 record applied once and applied again, on the current file.
StereoOnce(p) ==
    LET base == GetArm64SliceOffset(file).v
    IN  StereoLoopBody(StereoStart(file), p, ApplyShift(Arm64Records, base), base)

StereoTwice(p) ==
    LET base == GetArm64SliceOffset(file).v
    IN  StereoLoopBody(StereoOnce(p), p, ApplyShift(Arm64Records, base), base)

\* One entry of the byte-patch table applied once and applied again.
ByteOnce(e) == ByteLoopBody(ByteStart(file), e, MainFileOffsets(export))

ByteTwice(e) == ByteLoopBody(ByteOnce(e), e, MainFileOffsets(export))

C2_Classification ==
    /\ \A site \in Range(CurrentSpecs) :
          LET cur    == SiteBytes(file, site)
              status == SiteStatus(file, site)
              isPatched   == cur = FromHex(site.patch)
              isUnpatched == /\ ~isPatched
                             /\ ~IsNone(site.expected)
                             /\ site.expected.s # <<>>
                             /\ cur = FromHex(site.expected.s)
          IN  InBounds(file, site) =>
                /\ (status = "patched") <=> isPatched
                /\ (status = "unpatched") <=> isUnpatched
                /\ (status = "other") <=> (~isPatched /\ ~isUnpatched)
    /\ last.op = "corrupt" => SiteStatus(file, last.site) = "other"

\* A site has been overwritten with a third value and is classified "other"
\* while another site of the same file is classified "patched".
C2_Witness ==
    /\ last.op = "corrupt"
    /\ last.changed
    /\ SiteStatus(file, last.site) = "other"
    /\ \E i \in DOMAIN CurrentSpecs : SiteStatus(file, CurrentSpecs[i]) = "patched"
    /\ \E i \in DOMAIN CurrentSpecs : SiteStatus(file, CurrentSpecs[i]) = "unpatched"

\* The statuses of the resolved sites of the current state.
AllSites(status) ==
    \A site \in Range(CurrentSpecs) : SiteStatus(file, site) = status

\* What C3 says of a non-empty site set.
C3_NonEmpty ==
    (last.op = "check" /\ CurrentSpecs # <<>>) =>
        /\ last.total = Len(CurrentSpecs)
        /\ AllSites("patched") => last.report = "PATCHED"
        /\ AllSites("unpatched") => last.report = "UNPATCHED"
        /\ (~AllSites("patched") /\ ~AllSites("unpatched")) => last.report = "PARTIAL"

DocArm64Specs == Arm64Specs(<<>>, export, file)

\* The record of the document a resolved ARM64 site comes from.
RecordOf(site) ==
    Arm64Records[CHOOSE i \in DOMAIN Arm64Records :
                    Arm64Name(Arm64Records[i].name) = site.name]

\* The table entry of an x86_64 site.
EntryOf(site) ==
    PATCH_BYTES_BY_NAME[CHOOSE k \in DOMAIN PATCH_BYTES_BY_NAME :
                           PATCH_BYTES_BY_NAME[k].k = site.name.name]

\* An x86_64 site of the document that the byte-patch step writes: it has
\* expected-original bytes, and main hands its offset to apply_byte_patches.
X86DocSpecs == X86Specs(<<>>, export)

Applicable(site) ==
    /\ Truthy(site.expected)
    /\ DictHas(MainFileOffsets(export), site.name.name)
    /\ OffsetValue(DictGet(MainFileOffsets(export), site.name.name)) = site.file_offset

\* After `data` holds the site patched: it classifies as patched, and with the
\* original bytes written back as unpatched.
RoundTrip(data, site) ==
    /\ SiteStatus(data, site) = "patched"
    /\ site.expected.s # site.patch
          => SiteStatus(RestoreSite(data, site), site) = "unpatched"

RecordedBase == 16 * 256

Dual(p) == ~IsNone(p.fat_offset) /\ ~IsNone(p.va)

\* The dual records of the document agree with the layout it was recorded on.
Consistent ==
    \A i \in DOMAIN Arm64Records :
        Dual(Arm64Records[i])
           => Arm64Records[i].fat_offset.v - Arm64Records[i].va.v = RecordedBase

CurrentBase == GetArm64SliceOffset(file).v

\* Where the bytes of a recorded site are in the current layout.
TrueOffset(p) == p.fat_offset.v - RecordedBase + CurrentBase

\* The offsets at which two buffers differ.
DiffOffsets(d1, d2) == {k \in DOMAIN d1.mem \cup DOMAIN d2.mem : Rd(d1, k) # Rd(d2, k)}

\* What C7 says of the sites expressed via (fat_offset, va), in the classify
\* path and in the apply path.
C7_DualResolves ==
    /\ \A site \in Range(DocArm64Specs) :
          LET p == RecordOf(site)
          IN  Dual(p) => site.file_offset = CurrentBase + p.va.v
    /\ \A p \in Range(Arm64Records) :
          LET at == CurrentBase + p.va.v
          IN  Dual(p) =>
                 DiffOffsets(StereoOnce(p).data, file)
                    \subseteq at..(at + Len(HexStrToBytes(p.patch)) - 1)

\* C7 (as amended): with the slice base moved, a site expressed via
\* (fat_offset, va) resolves to current slice base + va; a site expressed only
\* via an absolute offset keeps its stale offset when no record of the document
\* carries both fields, and is shifted to its new offset like the others when
\* some record does.
C7_ShiftInvariance ==
    (IsFat(file) /\ Consistent) =>
        /\ C7_DualResolves
        /\ \A site \in Range(DocArm64Specs) :
              LET p == RecordOf(site)
              IN  IsNone(p.va) =>
                    IF FirstDual(Arm64Records) = 0
                    THEN /\ site.file_offset = p.fat_offset.v
                         /\ CurrentBase # RecordedBase => site.file_offset # TrueOffset(p)
                    ELSE site.file_offset = TrueOffset(p)

\* C7 as the specification states it: a site expressed only via a stale
\* absolute offset does not resolve to its new offset.
C7_StaleNeverResolves ==
    (IsFat(file) /\ Consistent) =>
        /\ C7_DualResolves
        /\ \A site \in Range(DocArm64Specs) :
              LET p == RecordOf(site)
              IN  (IsNone(p.va) /\ CurrentBase # RecordedBase)
                     => site.file_offset # TrueOffset(p)

\* On a layout whose slice base differs from the recorded one, the ARM64 step
\* has patched two sites of a document with (fat_offset, va) records, and both
\* classify as patched.
C7_Witness ==
    /\ IsFat(file)
    /\ CurrentBase # RecordedBase
    /\ last.op = "apply_stereo"
    /\ last.buf_writes >= 2
    /\ \A i \in DOMAIN Arm64Records : Dual(Arm64Records[i])
    /\ \A j \in DOMAIN DocArm64Specs : SiteStatus(file, DocArm64Specs[j]) = "patched"

\* C8: the shift is current slice base - (fat_offset - va) of the first record
\* that carries both fields and 0 when no record does; get_patch_specs and
\* apply_stereo_patches_from_json compute the same shift, every resolved ARM64
\* site is at recorded fat_offset + shift, and the apply path writes nowhere
\* else.
C8_ShiftComputation ==
    IsFat(file) =>
        LET sp    == Arm64Records
            d     == FirstDual(sp)
            shift == SpecsShift(sp, PyInt(CurrentBase))
        IN  /\ shift = ApplyShift(sp, CurrentBase)
            /\ (d = 0) <=> (\A i \in DOMAIN sp : ~Dual(sp[i]))
            /\ d # 0 => /\ Dual(sp[d])
                        /\ \A i \in 1..(d - 1) : ~Dual(sp[i])
                        /\ shift = CurrentBase - (sp[d].fat_offset.v - sp[d].va.v)
            /\ d = 0 => shift = 0
            /\ \A site \in Range(DocArm64Specs) :
                  site.file_offset = RecordOf(site).fat_offset.v + shift
            /\ \A p \in Range(sp) :
                  LET once == StereoOnce(p)
                      at   == p.fat_offset.v + shift
                  IN  /\ DiffOffsets(once.data, file)
                            \subseteq at..(at + Len(HexStrToBytes(p.patch)) - 1)
                      /\ once.applied = 1 =>
                            \E site \in Range(DocArm64Specs) :
                               /\ site.name = Arm64Name(p.name)
                               /\ site.file_offset = at

\* A check-only run on a layout with a non-zero shift finds two ARM64 sites
\* patched at the shifted offsets.
C8_Witness ==
    /\ IsFat(file)
    /\ last.op = "check"
    /\ SpecsShift(Arm64Records, PyInt(CurrentBase)) # 0
    /\ Len(DocArm64Specs) >= 2
    /\ \A site \in Range(DocArm64Specs) : SiteStatus(file, site) = "patched"

\* The ARM64 entries of the metadata saved for the target path, and the sites
\* get_patch_specs resolves from them on a file.
SavedArm64 == LoadPatchMetadata(meta, NODE_PATH).arm64

MetaSites(data) == Arm64Specs(SavedArm64, export, data)

AllArm64Patched(data) ==
    /\ SavedArm64 # <<>>
    /\ MetaSites(data) # <<>>
    /\ \A site \in Range(MetaSites(data)) : SiteStatus(data, site) = "patched"

\* C9: with metadata saved for the target path, each ARM64 site resolves to
\* the slice base read from the current file + the saved va of the entry of
\* that name, and an ARM64 site set that was fully patched before the slice
\* moved with its content is still classified as patched after the move.
C9_MetadataRobust ==
    /\ (SavedArm64 # <<>> /\ IsFat(file)) =>
          \A site \in Range(MetaSites(file)) :
             \E entry \in Range(SavedArm64) :
                /\ Arm64Name(entry.name) = site.name
                /\ site.file_offset = CurrentBase + entry.va.v
    /\ (last.op = "move" /\ AllArm64Patched(last.before)) => AllArm64Patched(file)

\* The slice has moved under saved metadata, and the two saved ARM64 sites
\* are classified as patched at the new base.
C9_Witness ==
    /\ last.op = "move"
    /\ IsFat(file)
    /\ CurrentBase # RecordedBase
    /\ Len(SavedArm64) >= 2
    /\ Len(MetaSites(file)) >= 2
    /\ AllArm64Patched(last.before)
    /\ AllArm64Patched(file)

\* The patches of the GUI table whose range fits a file of n bytes.
GuiFitting(n, fat_offset) ==
    {i \in DOMAIN BYTE_PATCHES :
        BYTE_PATCHES[i].offset + fat_offset + Len(FromHex(BYTE_PATCHES[i].hex_bytes)) <= n}

\* C5: a site whose offset + length exceeds the file length is rejected by
\* apply, neither written nor counted as applied, and no byte-patch operation
\* writes outside [0, len(file)).
C5_BoundsRejection ==
    /\ last.op = "apply_bytes" => \A k \in DOMAIN file.mem : k < last.pre_len
    /\ last.op = "gui_patch" =>
          /\ last.applied = Cardinality(GuiFitting(last.pre_len, last.fat_offset))
          /\ \A k \in DOMAIN file.mem : k < last.pre_len

\* C6: after a byte-patch application the file is as long as it was before.
C6_LengthInvariant ==
    last.op \in {"apply_bytes", "apply_stereo", "gui_patch"} => file.len = last.pre_len

\* The ranges [HP, HP + hp_size) and [DC, DC + dc_size) share a byte.
RangesIntersect(HP, DC, hp_size, dc_size) ==
    /\ hp_size > 0
    /\ dc_size > 0
    /\ HP < DC + dc_size
    /\ DC < HP + hp_size

\* C10: when the ranges of the two injection blobs intersect, in either order
\* of the two offsets, the injector rejects before any write and the file is
\* unchanged.
C10_OverlapRejection ==
    (/\ last.op = "inject"
     /\ ~IsNone(last.hp)
     /\ ~IsNone(last.dc)
     /\ RangesIntersect(last.hp.v, last.dc.v, last.hp_size, last.dc_size))
        => (last.rc = 1 /\ last.copies = 0 /\ ~last.changed)

\* A blob range [offset, offset + size) that does not fit a file of n bytes.
Exceeds(offset, size, n) == offset + size > n

\* C11: the injector copies bytes only when offset + size <= file length
\* holds for both blobs; when either range exceeds the file, no byte of either
\* blob is copied, the injector fails, and the file is as long as it was.
C11_InjectionBounds ==
    last.op \in {"inject", "gui_inject"} =>
        /\ file.len = last.pre_len
        /\ (/\ ~IsNone(last.hp)
            /\ ~IsNone(last.dc)
            /\ \/ Exceeds(last.hp.v, last.hp_size, last.pre_len)
               \/ Exceeds(last.dc.v, last.dc_size, last.pre_len))
              => (last.rc # 0 /\ last.copies = 0 /\ ~last.changed)

\* The sizes the injector accepts.
ValidSize(size) == 0 < size /\ size <= MAX_SIZE

\* C12: unless 0 < size <= MAX_SIZE holds for both blobs, the injector fails
\* with nothing copied and the file untouched, before it opens the file; this
\* holds for the injector of either engine, whatever the offsets and the file.
C12_SizeValidation ==
    /\ \A sizes \in InjectSizes, outcome \in MemcpyOutcomes :
          LET offs == GetInjectionOffsets(export)
              hp   == IF IsNone(offs.hp) THEN 0 ELSE offs.hp.v
              dc   == IF IsNone(offs.dc) THEN MAX_SIZE ELSE offs.dc.v
              r    == RunInjector(file, hp, dc, sizes[1], sizes[2])
              g    == GuiRunInjector(file, HP_CUTOFF_OFFSET, DC_REJECT_OFFSET,
                                     sizes[1], sizes[2], outcome)
          IN  (~ValidSize(sizes[1]) \/ ~ValidSize(sizes[2])) =>
                 /\ r = InjectorFailed(file, FALSE)
                 /\ g = InjectorFailed(file, FALSE)
    /\ (last.op \in {"inject", "gui_inject"}
          /\ (~ValidSize(last.hp_size) \/ ~ValidSize(last.dc_size)))
          => (last.rc = 1 /\ last.copies = 0 /\ ~last.opened /\ ~last.changed)
    /\ (last.op \in {"inject", "gui_inject"} /\ last.copies > 0)
          => (ValidSize(last.hp_size) /\ ValidSize(last.dc_size))

\* After an injection that copied both blobs, an injector run with a blob of
\* 401 bytes has failed and left the file alone.
C12_Witness ==
    /\ last.op = "inject"
    /\ last.repeat
    /\ last.hp_size = MAX_SIZE + 1
    /\ ~IsNone(last.hp)
    /\ ~IsNone(last.dc)
    /\ last.rc = 1
    /\ ~last.changed
    /\ \E k \in DOMAIN file.mem : file.mem[k] = HpCode(1)[1]

\* ------------------------------------------------------------------------
\* Sessions of the adaptive engine
\* ------------------------------------------------------------------------

Verdicts == {"PATCHED", "UNPATCHED", "PARTIAL", "UNPATCHED (no patch sites found)"}

\* The outcomes of the discovery pass after which main, line 632, gives up.
DiscoveryFailures == {"missing", "timeout", "failed", "unparsable", "empty"}

\* Nothing of the session has touched the file or the metadata.
Untouched ==
    /\ file = sess.file0
    /\ meta = sess.meta0
    /\ sess.backup = "none"
    /\ sess.steps = <<>>

\* The line --check-only prints for the file and the metadata of the session.
ReportOfSession ==
    LET st == CheckPatchStatus(sess.file0,
                               GetPatchSpecs(export, NODE_PATH, sess.meta0, sess.file0))
    IN  CheckOnlyReport(st.unpatched, st.patched, st.details)

Classified ==
    /\ sess.pc \notin {"discover", "classify"}
    /\ sess.discovery \notin DiscoveryFailures
    /\ ~LoadPatchMetadataRaises(sess.meta0, NODE_PATH)

\* At the start of the session there is a site and every site is patched.
FullyPatchedAtStart ==
    LET specs == GetPatchSpecs(export, NODE_PATH, sess.meta0, sess.file0)
    IN  /\ specs # <<>>
        /\ \A i \in DOMAIN specs : SiteStatus(sess.file0, specs[i]) = "patched"

\* C14: a session without --check-only that finds at least one site and
\* every site patched ends with status 0 and has made no backup, removed no
\* signature, written no byte of the file and not written the metadata; and
\* a session ends this way only then.
C14_PreflightGate ==
    /\ (~sess.check_only /\ Classified /\ FullyPatchedAtStart) =>
          /\ sess.pc = "exit"
          /\ sess.rc = 0
          /\ sess.why = "gate"
          /\ Untouched
    /\ sess.why = "gate" => ~sess.check_only /\ Classified /\ FullyPatchedAtStart

\* A session without --check-only on the file an earlier session patched,
\* whose metadata names both slices' sites, has ended at the gate.
C14_Witness ==
    /\ ~sess.check_only
    /\ sess.pc = "exit"
    /\ sess.why = "gate"
    /\ sess.meta0.exists
    /\ Len(GetPatchSpecs(export, NODE_PATH, sess.meta0, sess.file0)) = 4

\* C15 (as written): after a discovery pass that is missing, times out, exits
\* with a non-zero status, or leaves unparsable or empty output, the session
\* has ended with a non-zero status and nothing is touched.  Refuted by a
\* finder that exits with status 1 and leaves a document.
C15_AnyFailureCodeAborts ==
    (sess.discovery \in DiscoveryFailures
     \/ (sess.discovery # "" /\ FinderReturnCode(sess.discovery) # 0)) =>
        /\ sess.pc = "exit"
        /\ sess.rc # 0
        /\ Untouched

\* C15 (amended): after a discovery pass that is missing, times out, exits
\* with a status above 1, or leaves unparsable or empty output, the session
\* has ended with status 1 and the file and the metadata are untouched; a
\* finder that exits with status 1 and leaves a non-empty document is taken
\* as a success, and the session goes on with that document.
C15_DiscoveryFailure ==
    /\ \A o \in DiscoveryFailures :
          LET r == RunOffsetFinder(o, export) IN ~r.ok \/ r.falsy
    /\ \A o \in DiscoveryOutcomes \ DiscoveryFailures :
          LET r == RunOffsetFinder(o, export)
          IN  r.ok /\ ~r.falsy /\ r.data = export
    /\ sess.discovery \in DiscoveryFailures =>
          /\ sess.pc = "exit"
          /\ sess.rc = 1
          /\ sess.why = "discovery"
          /\ Untouched
    /\ sess.discovery \in {"exit1", "ok"} => sess.why # "discovery"

\* A session without --check-only whose finder ran into the timeout has
\* ended with status 1.
C15_Witness ==
    /\ ~sess.check_only
    /\ sess.discovery = "timeout"
    /\ sess.pc = "exit"
    /\ sess.rc = 1

\* The document of the session lacks HighpassCutoffFilter or DcReject.
MissingInjectionSite ==
    LET offs == GetInjectionOffsets(export)
    IN  IsNone(offs.hp) \/ IsNone(offs.dc)

\* C16 (as written): a session without --check-only whose document lacks one
\* of the two injection sites ends with a non-zero status, the file and the
\* metadata as they were.  Refuted by a file that is already fully patched.
C16_MissingSitesAlwaysFatal ==
    (~sess.check_only /\ Classified /\ MissingInjectionSite) =>
        /\ sess.pc = "exit"
        /\ sess.rc # 0
        /\ file = sess.file0
        /\ meta = sess.meta0

\* C16 (amended): a session without --check-only whose document lacks one of
\* the two injection sites ends with the file and the metadata untouched and
\* no backup made: with status 1 when some site is not patched or no site was
\* found, with status 0 at the gate when every site found is patched.
C16_MissingSites ==
    (~sess.check_only /\ Classified /\ MissingInjectionSite) =>
        /\ sess.pc = "exit"
        /\ Untouched
        /\ IF FullyPatchedAtStart
           THEN sess.rc = 0 /\ sess.why = "gate"
           ELSE sess.rc = 1 /\ sess.why = "sites"

\* A session on an unpatched file whose document has no DcReject has ended
\* with status 1.
C16_Witness ==
    /\ ~sess.check_only
    /\ MissingInjectionSite
    /\ sess.pc = "exit"
    /\ sess.why = "sites"
    /\ sess.rc = 1
    /\ ReportOfSession = "UNPATCHED"

\* C18 (as written): whenever a session has removed the signature, patched
\* bytes, injected or patched the ARM64 slice, it has made a backup of the
\* file before.  Refuted by a session whose backup could not be made.
C18_BackupPrecedesMutation ==
    (sess.steps # <<>> \/ file # sess.file0) => sess.backup = "made"

\* The metadata file of the session holds no record main can use: there is
\* none, it is of another file, or it is not a JSON object.
NoUsableRecord ==
    \/ ~sess.meta0.exists
    \/ sess.meta0.form # "object"
    \/ sess.meta0.node_path # NODE_PATH

\* C20 (as written): when the metadata file holds no usable record, the load
\* returns (None, None) without raising, and the sites are resolved as the
\* document gives them.  Refuted by a metadata file that holds a JSON list.
C20_LoadNeverAborts ==
    (NoUsableRecord /\ sess.discovery \in {"exit1", "ok"} /\ sess.pc # "classify") =>
        /\ ~LoadPatchMetadataRaises(sess.meta0, NODE_PATH)
        /\ ~LoadPatchMetadata(sess.meta0, NODE_PATH).found
        /\ sess.why # "traceback"

\* The patches of the GUI table whose range does not fit a file of n bytes.
GuiNotFitting(n, fat_offset) == DOMAIN BYTE_PATCHES \ GuiFitting(n, fat_offset)

\* C19 (as written): after apply_all_byte_patches every site that lies past
\* the end of the file is counted as failed, every site inside the file holds
\* its patch, and the two counts add up to the table.  Refuted by a file that
\* ends before the fixed offsets: no failure is counted.
C19_FailuresCounted ==
    last.op = "gui_patch" =>
        /\ last.fail = Cardinality(GuiNotFitting(last.pre_len, last.fat_offset))
        /\ last.applied + last.fail = Len(BYTE_PATCHES)
        /\ \A i \in GuiFitting(last.pre_len, last.fat_offset) :
              FileReadAt(file, BYTE_PATCHES[i].offset + last.fat_offset,
                         Len(FromHex(BYTE_PATCHES[i].hex_bytes)))
                = FromHex(BYTE_PATCHES[i].hex_bytes)

\* C17 (as written): once the injection of a session has failed, no later
\* step runs (the ARM64 script, the signing of the file as patched), no
\* metadata is written, the session is reported as failed and the file holds
\* neither blob alone.  Refuted by full_patch, which goes on to the ARM64
\* script and signs the file.
C17_InjectionFailureAborts ==
    sess.inj_ok = "no" =>
        /\ \A i \in DOMAIN sess.steps : sess.steps[i] \in {"unsign", "bytes"}
        /\ meta = NoMeta
        /\ sess.pc = "exit" => sess.report # "Complete"

\* ------------------------------------------------------------------------
\* The metadata store
\* ------------------------------------------------------------------------

\* The record load gives for x86_offsets x: an entry for each name of x that
\* is in PATCH_BYTES_BY_NAME, with the offset of x and the engine's bytes.
IsRecordOf(x86, x) ==
    /\ {e.k : e \in Range(x86)} = {e.k : e \in {y \in Range(x) : IsKnownName(y.k)}}
    /\ \A e \in Range(x86) :
          /\ e.v.file_offset = PyInt(DictGet(x, e.k))
          /\ e.v.patch_hex = DictGet(PATCH_BYTES_BY_NAME, e.k)

\* What load(p) returns in this state, given the saves made so far.
LoadAgrees(p, result) ==
    IF sess.cur.saved /\ sess.cur.path = p
    THEN /\ result.found
         /\ IsRecordOf(result.x86, sess.cur.x86)
         /\ result.arm64 = sess.cur.arm64
    ELSE ~result.found /\ result.x86 = <<>> /\ result.arm64 = <<>>

C22_MetadataAlone ==
    (/\ sess.check_only
     /\ LoadPatchMetadata(sess.meta0, NODE_PATH).found
     /\ sess.pc = "exit") =>
        /\ sess.rc = 0
        /\ sess.out \in Verdicts

\* ------------------------------------------------------------------------
\* Where the bytes written come from
\* ------------------------------------------------------------------------

\* The two documents name the same sites at the same offsets.
SameNamesAndOffsets(d, e) ==
    /\ Len(d.patches) = Len(e.patches)
    /\ \A i \in DOMAIN d.patches :
          /\ d.patches[i].name = e.patches[i].name
          /\ d.patches[i].file_offset = e.patches[i].file_offset
    /\ d.file_offsets = e.file_offsets
    /\ Len(d.stereo_patches) = Len(e.stereo_patches)
    /\ \A i \in DOMAIN d.stereo_patches :
          /\ d.stereo_patches[i].name = e.stereo_patches[i].name
          /\ d.stereo_patches[i].arch = e.stereo_patches[i].arch
          /\ d.stereo_patches[i].fat_offset = e.stereo_patches[i].fat_offset
          /\ d.stereo_patches[i].va = e.stereo_patches[i].va

\* C23 (as written): two sessions on the same file whose documents agree on
\* names and offsets write the same bytes, whatever the byte payloads of the
\* documents.  Refuted by an ARM64 record whose patch differs: its bytes are
\* written as the document gives them, under a name the engine knows too.
C23_CanonicalBytes ==
    SameNamesAndOffsets(export, sess.export) => file = sess.file

\* C24 (as written): every site the resolver gives for a session that carries
\* both an expected original and a replacement has them of the same length.
\* Refuted by a document whose x86_64 patch names one expected byte for a
\* site of four.
C24_SiteLengths ==
    Classified =>
        \A site \in Range(GetPatchSpecs(export, NODE_PATH, sess.meta0, sess.file0)) :
            Truthy(site.expected) => Len(site.expected.s) = Len(site.patch)

\* ------------------------------------------------------------------------
\* Sessions of the window
\* ------------------------------------------------------------------------

\* The worker threads whose session is running.
Running == {w \in sess.workers : w.pc = 0}

\* C25 (as written): under every interleaving of clicks, queued UI callbacks
\* and worker threads, at most one worker session runs at a time.  Refuted by
\* two clicks queued before the first is handled: _set_buttons_state(False)
\* only queues the callbacks that disable the buttons, behind the second
\* click, which an enabled button then takes.
C25_OneSession ==
    Cardinality(Running) <= 1

\* ------------------------------------------------------------------------
\* Verification of the writes
\* ------------------------------------------------------------------------

\* The file holds the replacement bytes of the site at off.
HoldsAt(off, hex_bytes) ==
    FileReadAt(file, off, Len(FromHex(hex_bytes))) = FromHex(hex_bytes)

\* C26 (as written): a byte patch is reported as applied if and only if the
\* site, read back after the write, holds the replacement bytes, and a site
\* that does not is counted as failed.  Holds of apply_byte_patch; refuted by
\* apply_byte_patches, which reads nothing back and has no count of failures:
\* it reports its sites as applied while the file no longer holds them.
C26_WriteVerified ==
    /\ last.op = "gui_read_back" =>
          /\ last.success <=> HoldsAt(BYTE_PATCHES[last.index].offset,
                                      BYTE_PATCHES[last.index].hex_bytes)
          /\ sess.ok + sess.fail = last.index
    /\ last.op = "adaptive_return" =>
          \A i \in DOMAIN sess.applied_offsets :
              HoldsAt(sess.applied_offsets[i].v,
                      RemoveSpaces(DictGet(PATCH_BYTES_BY_NAME, sess.applied_offsets[i].k)))

\* ------------------------------------------------------------------------
\* Order of the steps of a session
\* ------------------------------------------------------------------------

\* The positions of a step in the steps a session has run.
StepsAt(step) == {i \in DOMAIN sess.steps : sess.steps[i] = step}

\* C27 (as written): in a session the injector runs after every byte-patch
\* write, those of the x86_64 slice and those of the ARM64 slice.  Refuted by
\* main, whose step 5b writes the ARM64 sites after the injector has run.
C27_InjectionAfterBytePatches ==
    /\ \A i \in StepsAt("bytes") : \A j \in StepsAt("inject") : i < j
    /\ (last.op = "main_stereo" /\ last.buf_writes > 0) =>
           \A i \in StepsAt("stereo") : \A j \in StepsAt("inject") : i < j

\* The steps of the session that wrote the file on storage: apply_byte_patches
\* always does (line 393), the injector does when it succeeds, and
\* apply_stereo_patches_from_json does when it counts a site (line 369).
StorageWrites ==
    StepsAt("bytes") \cup StepsAt("inject") \cup
    (IF last.op = "main_stereo" /\ last.file_writes > 0 THEN StepsAt("stereo") ELSE {})

\* C28 (as written): a session writes the file on storage exactly once, after
\* all its byte patches and injections are staged in memory.  Refuted by
\* main: each step reads the file and writes it back on its own, so the file
\* on storage holds the byte patches without the injection in between.
C28_SingleFlush ==
    Cardinality(StorageWrites) <= 1

\* ------------------------------------------------------------------------
\* Frame of the patch steps
\* ------------------------------------------------------------------------

\* The offsets at which the file differs from the file before the step.
ChangedAt ==
    {i \in DOMAIN file.mem \cup DOMAIN last.before.mem : Rd(file, i) # Rd(last.before, i)}

\* The ranges of the x86_64 sites the byte-patch step reports as applied.
AppliedByteRanges ==
    UNION {LET off == sess.x86[k].v
               n   == Len(FromHex(RemoveSpaces(DictGet(PATCH_BYTES_BY_NAME, sess.x86[k].k))))
           IN  off..(off + n - 1) : k \in DOMAIN sess.x86}

\* The ranges of the ARM64 records of the document, at the offsets the step
\* computes for them, that hold their replacement after the step.
AppliedStereoRanges ==
    LET arm64_patches == Arm64Only(export.stereo_patches)
        start == GetArm64SliceOffset(last.before)
    IN  IF IsNone(start) THEN {}
        ELSE UNION {LET p     == arm64_patches[k]
                        patch == HexStrToBytes(p.patch)
                        fo    == p.fat_offset.v + ApplyShift(arm64_patches, start.v)
                    IN  IF IsNone(p.fat_offset) THEN {}
                        ELSE IF FileReadAt(file, fo, Len(patch)) # patch THEN {}
                        ELSE fo..(fo + Len(patch) - 1) : k \in DOMAIN arm64_patches}

\* C29: a patch step changes only bytes inside the ranges of the sites it
\* applies and leaves the length of the file as it was: after
\* apply_byte_patches every byte outside the ranges of the applied x86_64
\* sites, and after apply_stereo_patches_from_json every byte outside the
\* ranges of the ARM64 sites that hold their replacement, is the byte the
\* file held before the step.
C29_Frame ==
    /\ last.op = "apply_bytes" =>
          /\ file.len = last.before.len
          /\ ChangedAt \subseteq AppliedByteRanges
    /\ last.op = "apply_stereo" =>
          /\ file.len = last.before.len
          /\ ChangedAt \subseteq AppliedStereoRanges

\* A byte-patch step that applied a one-byte site and changed exactly that
\* byte, in a file that holds other non-zero bytes.
C29_Witness ==
    /\ last.op = "apply_bytes"
    /\ last.applied = 1
    /\ Cardinality(ChangedAt) = 1
    /\ ChangedAt = AppliedByteRanges
    /\ Cardinality(DOMAIN file.mem) > 1

\* ------------------------------------------------------------------------
\* The ARM64 sites, one by one
\* ------------------------------------------------------------------------

\* The ARM64 records of the document that pass the tests of lines 341-349 on
\* the file before the step, each with the offset the step computes for it.
StereoSites ==
    LET arm64_patches == Arm64Only(export.stereo_patches)
        start == GetArm64SliceOffset(last.before)
    IN  IF IsNone(start) THEN {}
        ELSE {site \in {[k     |-> k,
                         fo    |-> IF IsNone(arm64_patches[k].fat_offset) THEN 0
                                   ELSE arm64_patches[k].fat_offset.v
                                        + ApplyShift(arm64_patches, start.v),
                         orig  |-> HexStrToBytes(arm64_patches[k].orig),
                         patch |-> HexStrToBytes(arm64_patches[k].patch)]
                           : k \in {j \in DOMAIN arm64_patches :
                                       ~IsNone(arm64_patches[j].fat_offset)}} :
                /\ site.orig # <<>>
                /\ site.patch # <<>>
                /\ Len(site.patch) = Len(site.orig)
                /\ site.fo + Len(site.orig) <= last.before.len}

\* No two of these sites share a byte.
StereoSitesApart ==
    \A s, t \in StereoSites :
        s.k # t.k => (s.fo + Len(s.patch) <= t.fo \/ t.fo + Len(t.patch) <= s.fo)

\* What a site held before the step, and what it holds after it.
HeldBefore(site) == FileReadAt(last.before, site.fo, Len(site.orig))

HeldAfter(site) == FileReadAt(file, site.fo, Len(site.orig))

\* C30: apply_stereo_patches_from_json writes a site only when it holds the
\* orig bytes of its record; a site that holds the patch bytes already is
\* counted as applied without a write; a site that holds neither is skipped
\* and keeps its bytes; and the file is written back only if at least one
\* site was counted.
C30_ExactMatch ==
    last.op = "apply_stereo" =>
        /\ last.file_writes = (IF last.applied > 0 THEN 1 ELSE 0)
        /\ last.applied = 0 => file = last.before
        /\ StereoSitesApart =>
              /\ \A site \in StereoSites :
                    IF HeldBefore(site) = site.orig
                    THEN HeldAfter(site) = site.patch
                    ELSE HeldAfter(site) = HeldBefore(site)
              /\ last.buf_writes =
                    Cardinality({site \in StereoSites : HeldBefore(site) = site.orig})
              /\ last.applied =
                    Cardinality({site \in StereoSites :
                                   HeldBefore(site) \in {site.orig, site.patch}})

\* A step that wrote one site and counted another that held its patch
\* already.
C30_Witness ==
    /\ last.op = "apply_stereo"
    /\ StereoSitesApart
    /\ last.buf_writes > 0
    /\ last.applied > last.buf_writes
    /\ \E site \in StereoSites :
          HeldBefore(site) = site.patch /\ HeldBefore(site) # site.orig

\* ------------------------------------------------------------------------
\* The fat header
\* ------------------------------------------------------------------------

\* The entries of the table a parser may look at: among the first 20, below
\* the declared count, and whole inside the first `seen` bytes of the file.
Examined(seen) ==
    {i \in 0..19 : i < sess.nfat /\ 8 + i * 20 + 20 <= Min(file.len, seen)}

\* The first examined entry of the given cputype, or -1.
FirstEntry(cpu, seen) ==
    LET hits == {i \in Examined(seen) :
                   /\ FileReadAt(file, 8 + i * 20, 4) = cpu
                   /\ \A j \in Examined(seen) : j < i => j + 1 \in Examined(seen)}
    IN  IF hits = {} THEN 0 - 1 ELSE CHOOSE i \in hits : \A j \in hits : i <= j

\* The offset field of entry i.
EntryOffset(i) == U32(UnpackBE(file, 8 + i * 20 + 8))

\* C31: on every buffer each parser returns either no slice (None, 0) or the
\* offset field of an entry that lies whole inside the buffer, among the
\* first 20 entries and below the declared count; it returns no slice for a
\* buffer of fewer than 32 bytes and for a magic it does not recognize.
C31_GracefulParsing ==
    /\ last.op = "arm64_slice_offset" =>
          LET i == FirstEntry(CPU_ARM64, file.len)
          IN  /\ file.len < 32 => IsNone(last.result)
              /\ UnpackLE(file, 0) \notin FAT_MAGICS => IsNone(last.result)
              /\ ~IsNone(last.result) => i >= 0 /\ last.result = PyInt(EntryOffset(i))
              /\ i < 0 => IsNone(last.result)
    /\ last.op = "fat_offset" =>
          LET i == FirstEntry(CPU_X86_64, 512)
          IN  /\ file.len < 32 => last.result = PyInt(0)
              /\ UnpackBE(file, 0) \notin FAT_MAGICS => last.result = PyInt(0)
              /\ last.result # PyInt(0) => i >= 0 /\ last.result = PyInt(EntryOffset(i))
              /\ i < 0 => last.result = PyInt(0)

\* The ARM64 entry sits at index 20 of a header that declares more than 20
\* entries and holds them all: the parser does not reach it.
C31_Witness ==
    /\ last.op = "arm64_slice_offset"
    /\ UnpackLE(file, 0) \in FAT_MAGICS
    /\ sess.arm_at = 20
    /\ sess.nfat > 20
    /\ file.len >= 8 + 21 * 20
    /\ IsNone(last.result)

\* C32 (as written): the two parsers recognize the same headers, and for a
\* header the adaptive engine recognizes that lists an x86_64 slice
\* get_fat_offset returns the offset of that slice.  Refuted by a universal
\* file (CA FE BA BE): get_fat_offset reads the magic big-endian against the
\* constants the adaptive engine compares with a little-endian read.
C32_ParsersAgree ==
    last.op = "fat_offset" =>
        LET i == FirstEntry(CPU_X86_64, 512)
        IN  /\ (file.len >= 32 /\ UnpackLE(file, 0) \in FAT_MAGICS /\ i >= 0) =>
                  last.result = PyInt(EntryOffset(i))
            /\ last.result # PyInt(0) => UnpackLE(file, 0) \in FAT_MAGICS

\* ------------------------------------------------------------------------
\* Confinement to the UI thread
\* ------------------------------------------------------------------------

\* The log calls worker w has made so far.
Logged(w) ==
    {n \in 1..sess.pc[w] : WorkerScript(sess.kinds[w])[n] = "log"}

\* The lines of worker w that wait in the queue, and those in the widget.
QueuedLines(w) ==
    {sess.queue[i].n : i \in {j \in DOMAIN sess.queue :
                                sess.queue[j].type = "append" /\ sess.queue[j].worker = w}}

ShownLines(w) ==
    {sess.log_text[i].n : i \in {j \in DOMAIN sess.log_text : sess.log_text[j].worker = w}}

\* C33: every update a worker produces reaches the widgets as a callback run
\* by the UI thread (thread 0), no worker changes a widget itself, every
\* log line a worker has emitted is in the queue or in the log, and the
\* lines of one worker stand in the log in the order it emitted them, each
\* line before the lines of that worker that still wait.
C33_Confinement ==
    /\ sess.touched \subseteq {0}
    /\ \A w \in DOMAIN sess.kinds :
          /\ QueuedLines(w) \cup ShownLines(w) = Logged(w)
          /\ QueuedLines(w) \cap ShownLines(w) = {}
          /\ \A a \in ShownLines(w), b \in QueuedLines(w) : a < b
    /\ \A i, j \in DOMAIN sess.log_text :
          (i < j /\ sess.log_text[i].worker = sess.log_text[j].worker) =>
              sess.log_text[i].n < sess.log_text[j].n

\* Two workers have finished, all their callbacks have run, and their lines
\* stand interleaved in the log.
C33_Witness ==
    /\ Len(sess.kinds) = 2
    /\ \A w \in DOMAIN sess.kinds : sess.pc[w] = Len(WorkerScript(sess.kinds[w]))
    /\ sess.queue = <<>>
    /\ \E i \in DOMAIN sess.log_text :
          /\ i + 2 \in DOMAIN sess.log_text
          /\ sess.log_text[i].worker # sess.log_text[i + 1].worker
          /\ sess.log_text[i + 1].worker # sess.log_text[i + 2].worker

\* ------------------------------------------------------------------------
\* The end of a session
\* ------------------------------------------------------------------------

AllEnabled == \A b \in DOMAIN sess.buttons : sess.buttons[b]

\* C34: every session that has started is followed by a state in which no
\* worker runs, no callback waits and every action button is enabled,
\* whether its work succeeded, reported failures, raised or timed out.
C34_ReEnabled ==
    (sess.workers # {}) ~> (sess.workers = {} /\ sess.queue = <<>> /\ AllEnabled)

\* Two sessions have run, one of which raised or timed out, and the buttons
\* are enabled again.
C34_Witness ==
    /\ sess.ended = 2
    /\ last.op = "work"
    /\ last.outcome \in {"raised", "timeout"}
    /\ sess.queue = <<>>
    /\ AllEnabled

\* ------------------------------------------------------------------------
\* The va kept for an applied ARM64 site
\* ------------------------------------------------------------------------

C36_AppliedSitesHold ==
    last.op = "apply_bytes" =>
        \A k \in DOMAIN sess.x86 :
            HoldsAt(sess.x86[k].v, RemoveSpaces(DictGet(PATCH_BYTES_BY_NAME, sess.x86[k].k)))

\* ------------------------------------------------------------------------
\* The sites classified and the sites written
\* ------------------------------------------------------------------------

\* The x86_64 sites get_patch_specs resolves from the document alone.
ClassifiedX86 == Range(X86Specs(<<>>, export))

\* C37 (as written): with no persisted metadata, the (name, offset) pairs the
\* classification of a session inspects are the pairs its byte-patch step
\* writes, and right after the step every classified x86_64 site reads as
\* patched.
\* Refuted by a document whose file_offsets table names a site its patches
\* list does not: get_patch_specs reads the list, main the table.
C37_SameSites ==
    (sess.pc = "inject" /\ ~LoadPatchMetadata(meta, NODE_PATH).found) =>
        /\ {<<site.name.name, site.file_offset>> : site \in ClassifiedX86}
              = {<<sess.x86[k].k, sess.x86[k].v>> : k \in DOMAIN sess.x86}
        /\ \A site \in ClassifiedX86 : SiteStatus(file, site) = "patched"

\* ------------------------------------------------------------------------
\* Patch, restore, check
\* ------------------------------------------------------------------------

\* The file the session started on reads as unpatched at every site of the
\* document, which has at least one.
OriginalAtStart ==
    LET st == CheckPatchStatus(sess.file0,
                               GetPatchSpecs(export, NODE_PATH, NoMeta, sess.file0))
    IN  Len(st.details) > 0 /\ st.unpatched = Len(st.details)

\* C38 (as written): after a session that patched an original file and
\* persisted its metadata, and the restoring of the backup of that file, a
\* --check-only run reports UNPATCHED, never PARTIAL or PATCHED.  Refuted:
\* the sites read from the persisted metadata carry no expected original, so
\* the restored bytes of an x86_64 site classify as "other".
C38_RestoredReadsUnpatched ==
    (last.op = "recheck" /\ OriginalAtStart) => last.out = "UNPATCHED"

\* ------------------------------------------------------------------------
\* The ARM64 slice of a session told to skip it
\* ------------------------------------------------------------------------

\* The bytes of the ARM64 slice, by their offset in the slice.
Arm64Slice(data) ==
    LET base == GetArm64SliceOffset(data).v
    IN  {<<k - base, data.mem[k]>> : k \in {i \in DOMAIN data.mem : i >= base /\ data.mem[i] # 0}}

\* C39 (as written): a session the window starts with --arm64-method=skip
\* on a fat file modifies no byte of the ARM64 slice.  Refuted on the
\* adaptive path: main never reads the option, and step 5b writes the arm64
\* records of the document.
C39_SkipHonoured ==
    (sess.arm64_method = "skip" /\ IsFat(sess.file0)) =>
        Arm64Slice(file) = Arm64Slice(sess.file0)

\* ------------------------------------------------------------------------
\* Backup retention
\* ------------------------------------------------------------------------

\* C40 (as written): when create_backup returns, at most ten backups exist,
\* they are the most recently created of those that existed with the new
\* one, and the returned path is one of them.  Refuted: the backups are
\* ranked by st_mtime, which copy2 takes from the file copied, so a backup
\* of a file restored from an older backup ranks with that older backup.
C40_Retention ==
    last.op = "create_backup" =>
        /\ Cardinality(sess.backups) <= KeepBackups
        /\ last.returned \in sess.backups
        /\ \A a \in sess.backups, b \in (last.before \cup {last.returned}) \ sess.backups :
              a.ts > b.ts

====
